---- MODULE Spec2Model ----
(***************************************************************************)
(* Ethernet Connection Manager (cy_ecm.c, eth_internal.c): the global      *)
(* manager state, the interface handles, the link-monitor thread and the   *)
(* connect / disconnect orchestration, as a state machine.                 *)
(*                                                                         *)
(* Every API call of a caller thread runs through the same positions:      *)
(*   idle -> (argument and is_ecm_initialized checks) -> lock              *)
(*        -> locked (body, possibly several steps) -> exit -> ret -> idle  *)
(* "lock" is the thread blocked in cy_rtos_get_mutex, "exit" is the exit   *)
(* label of the function: the mutex is still held and th[t].result is the  *)
(* value the call returns once cy_rtos_set_mutex has succeeded.  "ret" is  *)
(* a call that returned without ever taking the mutex.  The link monitor   *)
(* is a separate thread that never takes ecm_mutex.                        *)
(***************************************************************************)
EXTENDS Integers, Sequences, FiniteSets, TLC

(***************************************************************************)
(* Bounds of the model                                                     *)
(***************************************************************************)
NumCallers == 2
MaxObjs == 2
MaxAttach == 2
MaxDhcpPolls == 6001
MaxCycles == 2
NumCallbacks == 2
MaxNegPolls == 101

(***************************************************************************)
(* Program constants                                                       *)
(***************************************************************************)
DHCP_TIMEOUT_COUNT == 6000
CY_ECM_ETH_INTERFACE_MAX == 2
CY_POLL_ETHERNET_PHY_STATUS_TIME == 1000
WAIT_CHECK_ETHERNET_PHY_STATUS == 100
RETRY_WAIT_TIME_GET_IP_ADDR == 10
CY_ECM_MAXIMUM_CALLBACKS_COUNT == 3
MAX_WAIT_ETHERNET_PHY_STATUS == 10000
SLEEP_ETHERNET_PHY_STATUS == 1
AUTO_NEG_POLL_TIME == 100
CY_ECM_MAX_FILTER_ADDRESS == 4
CY_ECM_INTERFACE_ETH0 == 0
CY_ECM_INTERFACE_ETH1 == 1
CY_ECM_INTERFACE_INVALID == 2
UINT8_MOD == 256

NULL == 0
Callers == 1..NumCallers
ObjIds == 1..MaxObjs
CallbackIds == 1..NumCallbacks
Interfaces == 0..(CY_ECM_ETH_INTERFACE_MAX - 1)

VARIABLES
    is_ecm_initialized,     \* static bool is_ecm_initialized
    is_tcp_initialized,     \* static bool is_tcp_initialized
    ecm_mutex,              \* global mutex: [valid, owner]; owner NULL = free
    ecm_event_thread,       \* static cy_thread_t ecm_event_thread: NULL or a thread handle
    monitor,                \* the running link-monitor threads: how many, their argument,
                            \* and, where an iteration is followed step by step, its position,
                            \* the index it evaluates, the answer of its poll and its event,
                            \* and the slot and the pointer its dispatch loop has read
    ecm_event_handler,      \* static callback table, slots 0..2
    is_ethernet_initiated,  \* static bool is_ethernet_initiated[2]
    is_ethernet_link_up,    \* static bool is_ethernet_link_up[2]
    is_ecm_thread_created,  \* static uint8_t is_ecm_thread_created
    heap,                   \* the cy_ecm_object_t objects, by address
    app_handle,             \* the application's cy_ecm_t variable for each interface
    nw,                     \* network stack: number of interface contexts attached per index
    cycles,                 \* history: completed connect/disconnect cycles of each object
    last_dispatch,          \* the callback invocations made by the most recent invoke_app_callbacks
    ip_change,              \* the most recent run of ip_change_callback: the answer of its
                            \* address query, the address it got and the event data it
                            \* built; seq tells one run from the next
    th                      \* caller threads: position, arguments, locals, result

vars == <<is_ecm_initialized, is_tcp_initialized, ecm_mutex, ecm_event_thread,
          monitor, ecm_event_handler, is_ethernet_initiated, is_ethernet_link_up,
          is_ecm_thread_created, heap, app_handle, nw, cycles, last_dispatch,
          ip_change, th>>

globals == <<is_ecm_initialized, is_tcp_initialized, ecm_event_thread,
             monitor, ecm_event_handler, is_ethernet_initiated, is_ethernet_link_up,
             is_ecm_thread_created, heap, app_handle, nw, cycles, last_dispatch,
             ip_change>>

(***************************************************************************)
(* Records                                                                 *)
(***************************************************************************)
\* A block of memory that is not allocated (before malloc / after free).
FreeObj == [live |-> FALSE, isobjinitialized |-> FALSE, eth_idx |-> 0,
            network_up |-> FALSE, iface_context |-> FALSE, obj_mutex |-> FALSE]

\* ip_change_callback has not run yet.
NoIpChange == [seq |-> 0, res |-> "none", queried |-> 0,
               data |-> [version |-> "0", v4 |-> 0]]

\* A caller thread that is not inside an API call.
IdleThread == [pc |-> "idle", op |-> "none", h |-> NULL, idx |-> 0,
               result |-> "CY_RSLT_SUCCESS", total_wait_time |-> 0,
               log |-> <<>>, pre |-> FALSE, arg |-> 0, out |-> "unset", i |-> 0]

\* No interface index (the monitor loop evaluated none).
NoIndex == 0 - 1

\* No link-monitor thread is running.
StoppedMonitor == [count |-> 0, arg |-> NULL, pc |-> "loop", idx |-> NoIndex,
                   status |-> "none", event |-> "none", slot |-> 0, seen |-> NULL]

Init ==
    /\ is_ecm_initialized = FALSE
    /\ is_tcp_initialized = FALSE
    /\ ecm_mutex = [valid |-> FALSE, owner |-> NULL]
    /\ ecm_event_thread = NULL
    /\ monitor = StoppedMonitor
    /\ ecm_event_handler = [i \in 0..(CY_ECM_MAXIMUM_CALLBACKS_COUNT - 1) |-> NULL]
    /\ is_ethernet_initiated = [i \in Interfaces |-> FALSE]
    /\ is_ethernet_link_up = [i \in Interfaces |-> FALSE]
    /\ is_ecm_thread_created = 0
    /\ heap = [o \in ObjIds |-> FreeObj]
    /\ app_handle = [i \in Interfaces |-> NULL]
    /\ nw = [i \in Interfaces |-> 0]
    /\ cycles = [o \in ObjIds |-> 0]
    /\ last_dispatch = <<>>
    /\ ip_change = NoIpChange
    /\ th = [t \in Callers |-> IdleThread]

(***************************************************************************)
(* Call protocol shared by the API functions                               *)
(***************************************************************************)
\* A call that returns before taking the mutex.
EarlyReturn(t, opname, res) ==
    th' = [th EXCEPT ![t] = [IdleThread EXCEPT !.pc = "ret", !.op = opname, !.result = res]]

\* A call that passed its checks and now blocks in cy_rtos_get_mutex.
Enter(t, opname, obj, index) ==
    th' = [th EXCEPT ![t] = [IdleThread EXCEPT !.pc = "lock", !.op = opname,
                                               !.h = obj, !.idx = index]]

\* The handle in app_handle[v] designates a live object of interface v.
ValidHandle(v) ==
    /\ app_handle[v] # NULL
    /\ heap[app_handle[v]].live
    /\ heap[app_handle[v]].eth_idx = v

\* Some thread is inside cy_ecm_ethif_deinit for object o.
BeingDestroyed(o) ==
    \E u \in Callers : th[u].op = "destroy" /\ th[u].h = o /\ th[u].pc # "idle"

\* Some thread is inside an API call on object o.
InUse(o) ==
    \E u \in Callers : th[u].h = o /\ th[u].pc # "idle"

\* cy_rtos_get_mutex( &ecm_mutex, CY_RTOS_NEVER_TIMEOUT ) returning success
AcquireUnguarded(t) ==
    /\ th[t].pc = "lock"
    /\ ecm_mutex.valid
    /\ ecm_mutex' = [ecm_mutex EXCEPT !.owner = t]
    /\ th' = [th EXCEPT ![t].pc = "locked"]
    /\ UNCHANGED globals

Acquire(t) ==
    /\ th[t].pc = "lock"
    /\ ecm_mutex.valid
    /\ ecm_mutex.owner = NULL
    /\ ecm_mutex' = [ecm_mutex EXCEPT !.owner = t]
    /\ th' = [th EXCEPT ![t].pc = "locked"]
    /\ UNCHANGED globals

\* cy_rtos_get_mutex( &ecm_mutex, CY_RTOS_NEVER_TIMEOUT ) returning an error.
\* cy_ecm_get_mac_address sets result and jumps to its exit label; every other
\* function returns CY_RSLT_ECM_MUTEX_ERROR at once.
AcquireFails(t) ==
    /\ th[t].pc = "lock"
    /\ th' = [th EXCEPT ![t].pc = IF th[t].op = "get_mac_address" THEN "exit" ELSE "ret",
                        ![t].result = "CY_RSLT_ECM_MUTEX_ERROR"]
    /\ UNCHANGED <<ecm_mutex, globals>>

\* The value returned from the exit label of function opname when result holds
\* res and cy_rtos_set_mutex answers set_ok.  cy_ecm_register_event_callback and
\* cy_ecm_deregister_event_callback assign the answer of cy_rtos_set_mutex to
\* result; the other functions only replace result when the release fails.
exit_result(opname, res, set_ok) ==
    IF ~set_ok THEN "CY_RSLT_ECM_MUTEX_ERROR"
    ELSE IF opname \in {"register", "deregister"} THEN "CY_RSLT_SUCCESS"
    ELSE res

\* The value a call at its exit label returns when the mutex release succeeds.
ReturnValue(t) == exit_result(th[t].op, th[t].result, TRUE)

\* A call that has taken the mutex is about to return r.
Returns(t, opname, r) ==
    th[t].pc = "exit" /\ th[t].op = opname /\ ReturnValue(t) = r

\* exit label: cy_rtos_set_mutex( &ecm_mutex ) returning success, then return
Release(t) ==
    /\ th[t].pc = "exit"
    /\ ecm_mutex' = [ecm_mutex EXCEPT !.owner = NULL]
    /\ th' = [th EXCEPT ![t] = IdleThread]
    /\ UNCHANGED globals

\* exit label: cy_rtos_set_mutex( &ecm_mutex ) returning an error, then return.
\* The RTOS may or may not have given the mutex up.
ReleaseFails(t) ==
    /\ th[t].pc = "exit"
    /\ \E released \in BOOLEAN :
         ecm_mutex' = IF released THEN [ecm_mutex EXCEPT !.owner = NULL] ELSE ecm_mutex
    /\ th' = [th EXCEPT ![t].pc = "ret",
                        ![t].result = exit_result(th[t].op, th[t].result, FALSE)]
    /\ UNCHANGED globals

\* The caller has seen the result; the thread is free for its next call.
Return(t) ==
    /\ th[t].pc = "ret"
    /\ th' = [th EXCEPT ![t] = IdleThread]
    /\ UNCHANGED <<ecm_mutex, globals>>

(***************************************************************************)
(* cy_ecm_init                                                             *)
(***************************************************************************)
\* A call that returns without having taken ecm_mutex, after the collaborator
\* calls in calls.
ReturnAfter(t, opname, res, calls) ==
    th' = [th EXCEPT ![t] = [IdleThread EXCEPT !.pc = "ret", !.op = opname, !.result = res,
                                               !.log = calls]]

\* The is_ecm_initialized check of cy_ecm_init.
AlreadyActiveNever == FALSE

AlreadyActive == is_ecm_initialized

cy_ecm_init(t) ==
    /\ th[t].pc = "idle"
    /\ \E nw_ok \in BOOLEAN, mutex_ok \in BOOLEAN :
         LET nw_init == IF is_tcp_initialized THEN <<>> ELSE <<"cy_network_init">> IN
         IF AlreadyActive
         THEN /\ EarlyReturn(t, "init", "CY_RSLT_ECM_INIT_ERROR")
              /\ UNCHANGED <<is_ecm_initialized, is_tcp_initialized, ecm_mutex>>
         ELSE IF ~is_tcp_initialized /\ ~nw_ok
         THEN /\ ReturnAfter(t, "init", "CY_RSLT_ECM_NW_INIT_ERROR", nw_init)
              /\ UNCHANGED <<is_ecm_initialized, is_tcp_initialized, ecm_mutex>>
         ELSE IF ~mutex_ok
         THEN /\ ReturnAfter(t, "init", "CY_RSLT_ECM_MUTEX_ERROR",
                             nw_init \o <<"cy_rtos_init_mutex2", "cy_network_deinit">>)
              /\ is_tcp_initialized' = FALSE
              /\ UNCHANGED <<is_ecm_initialized, ecm_mutex>>
         ELSE /\ ReturnAfter(t, "init", "CY_RSLT_SUCCESS", nw_init \o <<"cy_rtos_init_mutex2">>)
              /\ is_tcp_initialized' = TRUE
              /\ ecm_mutex' = [valid |-> TRUE, owner |-> NULL]
              /\ is_ecm_initialized' = TRUE
    /\ UNCHANGED <<ecm_event_thread, monitor, ecm_event_handler, is_ethernet_initiated,
                   is_ethernet_link_up, is_ecm_thread_created, heap, app_handle, nw,
                   cycles, last_dispatch, ip_change>>

(***************************************************************************)
(* cy_ecm_deinit                                                           *)
(***************************************************************************)
\* cy_ecm_deinit takes no lock and does not look at the handles: the objects,
\* the initiated flags and the monitor thread stay as they are.
cy_ecm_deinit(t) ==
    /\ th[t].pc = "idle"
    /\ IF ~is_ecm_initialized
       THEN /\ EarlyReturn(t, "deinit", "CY_RSLT_MODULE_ECM_NOT_INITIALIZED")
            /\ UNCHANGED <<is_ecm_initialized, is_tcp_initialized, ecm_mutex>>
       ELSE /\ ReturnAfter(t, "deinit", "CY_RSLT_SUCCESS",
                           <<"cy_network_deinit", "cy_rtos_deinit_mutex">>)
            /\ is_ecm_initialized' = FALSE
            /\ is_tcp_initialized' = FALSE
            /\ ecm_mutex' = [valid |-> FALSE, owner |-> NULL]
    /\ UNCHANGED <<ecm_event_thread, monitor, ecm_event_handler, is_ethernet_initiated,
                   is_ethernet_link_up, is_ecm_thread_created, heap, app_handle, nw,
                   cycles, last_dispatch, ip_change>>

(***************************************************************************)
(* cy_eth_driver_initialization (eth_internal.c)                           *)
(***************************************************************************)
\* Number of iterations of a polling loop
\*     while( waited < ceiling ) { poll; delay(step); waited += step; }
\* in which no poll ends the loop: the smallest n with n * step >= ceiling.
LoopIterations(ceiling, step) == (ceiling + step - 1) \div step

\* Result of the link wait of cy_eth_driver_initialization.  first_up is the
\* number of polls that do not report link-up before the first one that does;
\* last_err says whether the last poll made returned an error.  retry_count
\* ends at most equal to the ceiling, so the "retry_count > ceiling" branch is
\* the only place that could turn an exhausted wait into an error.
cy_eth_driver_initialization(first_up, last_err) ==
    LET n           == LoopIterations(MAX_WAIT_ETHERNET_PHY_STATUS, SLEEP_ETHERNET_PHY_STATUS)
        broke       == first_up < n
        retry_count == (IF broke THEN first_up ELSE n) * SLEEP_ETHERNET_PHY_STATUS
    IN  IF broke THEN "CY_RSLT_SUCCESS"
        ELSE IF retry_count > MAX_WAIT_ETHERNET_PHY_STATUS THEN "CY_RSLT_ECM_ERROR"
        ELSE IF last_err THEN "PHY_ERROR"
        ELSE "CY_RSLT_SUCCESS"

DriverPollChoices == {0, 1, 9999, 10000}

(***************************************************************************)
(* cy_ecm_ethif_init (create)                                              *)
(***************************************************************************)
\* Entry of cy_ecm_ethif_init: argument checks and the is_ecm_initialized check.
Call_ethif_init(t, eth_idx) ==
    /\ th[t].pc = "idle"
    /\ \E phy_callbacks_ok \in BOOLEAN :
         IF eth_idx >= CY_ECM_INTERFACE_INVALID \/ ~phy_callbacks_ok
         THEN EarlyReturn(t, "create", "CY_RSLT_MODULE_ECM_BADARG")
         ELSE IF ~is_ecm_initialized
         THEN EarlyReturn(t, "create", "CY_RSLT_MODULE_ECM_NOT_INITIALIZED")
         ELSE Enter(t, "create", NULL, eth_idx)
    /\ UNCHANGED <<ecm_mutex, globals>>

\* malloc( sizeof( cy_ecm_object_t ) ): the lowest free block, or NULL (out of
\* memory, which may happen at any time).
malloc ==
    LET free == {o \in ObjIds : ~heap[o].live}
    IN  {NULL} \cup {o \in free : \A p \in free : o <= p}

\* The interface-in-use check at the head of the locked section.
AlreadyInitiatedNever(eth_idx) == FALSE

AlreadyInitiated(eth_idx) == is_ethernet_initiated[eth_idx] = TRUE

\* The exit label of cy_ecm_ethif_init: free the object, if one was allocated.
\* free( ecm_obj ) (the first variant leaves the object as it is).
free_skipped(o) == heap

free(o) == [heap EXCEPT ![o] = FreeObj]

ethif_init_exit(t, obj, res, initiated, thread_created) ==
    /\ heap' = IF obj = NULL THEN heap ELSE free(obj)
    /\ is_ethernet_initiated' = initiated
    /\ th' = [th EXCEPT ![t].pc = "exit", ![t].result = res, ![t].h = obj,
                        ![t].pre = is_ethernet_initiated[th[t].idx]]
    /\ UNCHANGED <<ecm_event_thread, monitor, is_ecm_thread_created>>

\* Body of cy_ecm_ethif_init between the mutex acquire and the exit label.
Body_ethif_init(t) ==
    /\ th[t].pc = "locked"
    /\ th[t].op = "create"
    /\ LET eth_idx == th[t].idx
           newobj  == [live |-> TRUE, isobjinitialized |-> TRUE, eth_idx |-> eth_idx,
                       network_up |-> FALSE, iface_context |-> FALSE, obj_mutex |-> TRUE]
           marked  == [is_ethernet_initiated EXCEPT ![eth_idx] = TRUE]
       IN
       IF AlreadyInitiated(eth_idx)
       THEN /\ ethif_init_exit(t, NULL, "CY_RSLT_ECM_INIT_ERROR", is_ethernet_initiated, FALSE)
            /\ UNCHANGED app_handle
       ELSE
       \E ecm_obj \in malloc,
          obj_mutex_ok \in BOOLEAN, first_up \in DriverPollChoices,
          last_err \in BOOLEAN, thread_ok \in BOOLEAN :
         IF ecm_obj = NULL
         THEN /\ ethif_init_exit(t, NULL, "CY_RSLT_ECM_ERROR_NOMEM", is_ethernet_initiated, FALSE)
              /\ UNCHANGED app_handle
         ELSE IF ~obj_mutex_ok
         THEN /\ ethif_init_exit(t, ecm_obj, "CY_RSLT_ECM_MUTEX_ERROR", is_ethernet_initiated, FALSE)
              /\ UNCHANGED app_handle
         ELSE IF cy_eth_driver_initialization(first_up, last_err) # "CY_RSLT_SUCCESS"
         THEN /\ ethif_init_exit(t, ecm_obj, "CY_RSLT_ECM_ERROR", is_ethernet_initiated, FALSE)
              /\ app_handle' = [app_handle EXCEPT ![eth_idx] = ecm_obj]
         ELSE IF is_ecm_thread_created = 0 /\ ~thread_ok
         THEN /\ ethif_init_exit(t, ecm_obj, "CY_RSLT_ECM_ERROR", marked, FALSE)
              /\ app_handle' = [app_handle EXCEPT ![eth_idx] = ecm_obj]
         ELSE /\ heap' = [heap EXCEPT ![ecm_obj] = newobj]
              /\ app_handle' = [app_handle EXCEPT ![eth_idx] = ecm_obj]
              /\ is_ethernet_initiated' = marked
              /\ IF is_ecm_thread_created = 0
                 THEN /\ ecm_event_thread' = 1
                      /\ monitor' = [StoppedMonitor EXCEPT !.count = monitor.count + 1,
                                                            !.arg = ecm_obj]
                 ELSE UNCHANGED <<ecm_event_thread, monitor>>
              /\ is_ecm_thread_created' = (is_ecm_thread_created + 1) % UINT8_MOD
              /\ th' = [th EXCEPT ![t].pc = "exit", ![t].result = "CY_RSLT_SUCCESS",
                                  ![t].h = ecm_obj,
                                  ![t].pre = is_ethernet_initiated[eth_idx]]
    /\ UNCHANGED <<ecm_mutex, is_ecm_initialized, is_tcp_initialized, ecm_event_handler,
                   is_ethernet_link_up, nw, cycles, last_dispatch, ip_change>>

(***************************************************************************)
(* cy_eth_phy_initialization (eth_internal.c)                              *)
(***************************************************************************)
\* The auto-negotiation wait, entered when the driver is not yet configured
\* and speed or mode is AUTO: do { delay; phy_get_auto_neg_status } while
\* ( neg_status == 0 ).  The loop is left only by a read that fails or that
\* reports completion.  One step stands for MaxNegPolls successful reads of
\* status 0 in a row, made inside the locked section of cy_ecm_ethif_init.
cy_eth_phy_initialization_poll(t) ==
    /\ th[t].pc = "locked"
    /\ th[t].op = "create"
    /\ ~AlreadyInitiated(th[t].idx)
    /\ th[t].total_wait_time = 0
    /\ th' = [th EXCEPT ![t].total_wait_time = MaxNegPolls * AUTO_NEG_POLL_TIME,
                        ![t].log = th[t].log \o <<"phy_get_auto_neg_status">>]
    /\ UNCHANGED <<ecm_mutex, globals>>

(***************************************************************************)
(* cy_ecm_ethif_deinit (destroy)                                           *)
(***************************************************************************)
\* Entry of cy_ecm_ethif_deinit on the application's handle variable v.
Call_ethif_deinit(t, v) ==
    /\ th[t].pc = "idle"
    /\ IF app_handle[v] = NULL
       THEN EarlyReturn(t, "destroy", "CY_RSLT_MODULE_ECM_BADARG")
       ELSE /\ ValidHandle(v)
            /\ ~InUse(app_handle[v])
            /\ IF heap[app_handle[v]].isobjinitialized # TRUE
               THEN EarlyReturn(t, "destroy", "CY_RSLT_MODULE_ECM_NOT_INITIALIZED")
               ELSE Enter(t, "destroy", app_handle[v], v)
    /\ UNCHANGED <<ecm_mutex, globals>>

\* is_ecm_thread_created-- on a uint8_t (the first variant leaves it alone).
decrement_kept(count) == count

decrement(count) == (count + UINT8_MOD - 1) % UINT8_MOD

\* The test that decides whether the event thread is terminated.
LastReferenceAlways(count) == TRUE

LastReference(count) == count = 0

\* Body of cy_ecm_ethif_deinit between the mutex acquire and the release.
Body_ethif_deinit(t) ==
    /\ th[t].pc = "locked"
    /\ th[t].op = "destroy"
    /\ heap[th[t].h].live
    /\ LET ecm_obj == th[t].h
           count   == decrement(is_ecm_thread_created)
       IN
       /\ is_ecm_thread_created' = count
       /\ IF LastReference(count) /\ ecm_event_thread # NULL
          THEN /\ monitor' = IF monitor.count > 1
                             THEN [monitor EXCEPT !.count = monitor.count - 1]
                             ELSE StoppedMonitor
               /\ ecm_event_thread' = NULL
          ELSE UNCHANGED <<monitor, ecm_event_thread>>
       /\ is_ethernet_initiated' = [is_ethernet_initiated EXCEPT ![heap[ecm_obj].eth_idx] = FALSE]
       /\ heap' = free(ecm_obj)
       /\ app_handle' = [app_handle EXCEPT ![th[t].idx] = NULL]
       /\ cycles' = [cycles EXCEPT ![ecm_obj] = 0]
       /\ th' = [th EXCEPT ![t].pc = "exit", ![t].result = "CY_RSLT_SUCCESS"]
    /\ UNCHANGED <<ecm_mutex, is_ecm_initialized, is_tcp_initialized, ecm_event_handler,
                   is_ethernet_link_up, nw, last_dispatch, ip_change>>

\* A second thread passes the handle of interface v to cy_ecm_ethif_deinit
\* while a destroy of the same handle by another thread has passed its checks
\* and has not yet freed the object: both calls find isobjinitialized true.
\* The race is followed from the states in which the count has not wrapped.
Call_ethif_deinit_racing(t, v) ==
    /\ th[t].pc = "idle"
    /\ is_ecm_thread_created \in 1..CY_ECM_ETH_INTERFACE_MAX
    /\ ValidHandle(v)
    /\ BeingDestroyed(app_handle[v])
    /\ heap[app_handle[v]].isobjinitialized = TRUE
    /\ Enter(t, "destroy", app_handle[v], v)
    /\ UNCHANGED <<ecm_mutex, globals>>

\* Body of cy_ecm_ethif_deinit when the object was freed by another destroy
\* while this call waited for ecm_mutex.  The decrement and the test on the
\* count do not touch the object; eth_idx is read from the freed block and may
\* be either index; the second free of the block leaves the heap as it is.
Body_ethif_deinit_freed(t) ==
    /\ th[t].pc = "locked"
    /\ th[t].op = "destroy"
    /\ ~heap[th[t].h].live
    /\ LET count == decrement(is_ecm_thread_created)
       IN
       /\ is_ecm_thread_created' = count
       /\ IF LastReference(count) /\ ecm_event_thread # NULL
          THEN /\ monitor' = IF monitor.count > 1
                             THEN [monitor EXCEPT !.count = monitor.count - 1]
                             ELSE StoppedMonitor
               /\ ecm_event_thread' = NULL
          ELSE UNCHANGED <<monitor, ecm_event_thread>>
       /\ \E eth_idx \in Interfaces :
            is_ethernet_initiated' = [is_ethernet_initiated EXCEPT ![eth_idx] = FALSE]
       /\ app_handle' = [app_handle EXCEPT ![th[t].idx] = NULL]
       /\ th' = [th EXCEPT ![t].pc = "exit", ![t].result = "CY_RSLT_SUCCESS"]
    /\ UNCHANGED <<ecm_mutex, is_ecm_initialized, is_tcp_initialized, ecm_event_handler,
                   is_ethernet_link_up, heap, nw, cycles, last_dispatch, ip_change>>

(***************************************************************************)
(* cy_ecm_connect                                                          *)
(***************************************************************************)
\* Entry of an API call that takes a handle by value: the NULL check and the
\* is_ecm_initialized check.  The application passes its handle for interface v.
CallOnHandle(t, opname, v) ==
    /\ th[t].pc = "idle"
    /\ IF app_handle[v] = NULL
       THEN EarlyReturn(t, opname, "CY_RSLT_MODULE_ECM_BADARG")
       ELSE /\ ValidHandle(v)
            /\ ~BeingDestroyed(app_handle[v])
            /\ IF ~is_ecm_initialized
               THEN EarlyReturn(t, opname, "CY_RSLT_MODULE_ECM_NOT_INITIALIZED")
               ELSE Enter(t, opname, app_handle[v], v)
    /\ UNCHANGED <<ecm_mutex, globals>>

Call_connect(t, v) == CallOnHandle(t, "connect", v)

\* goto exit with result res, having issued the collaborator calls in calls.
GotoExit(t, res, calls) ==
    th' = [th EXCEPT ![t].pc = "exit", ![t].result = res, ![t].log = th[t].log \o calls]

\* Continue at position pos, having issued the collaborator calls in calls.
Goto(t, pos, calls) ==
    th' = [th EXCEPT ![t].pc = pos, ![t].log = th[t].log \o calls]

\* The already-connected check of cy_ecm_connect.
IsConnectedNever(obj) == FALSE

IsConnected(obj) == heap[obj].network_up = TRUE

\* cy_ecm_connect from the mutex acquire up to the link wait: handle checks,
\* static address checks, cy_network_add_nw_interface, IP-change subscription.
Body_connect(t) ==
    /\ th[t].pc = "locked"
    /\ th[t].op = "connect"
    /\ LET ecm_obj == th[t].h
           eth_idx == heap[ecm_obj].eth_idx
       IN
       \E static \in {"none", "v4", "v6"}, add_ok \in BOOLEAN :
         IF heap[ecm_obj].isobjinitialized # TRUE
         THEN /\ GotoExit(t, "CY_RSLT_MODULE_ECM_NOT_INITIALIZED", <<>>)
              /\ UNCHANGED <<heap, nw>>
         ELSE IF IsConnected(ecm_obj)
         THEN /\ GotoExit(t, "CY_RSLT_MODULE_ECM_ALREADY_CONNECTED", <<>>)
              /\ UNCHANGED <<heap, nw>>
         ELSE IF static = "v6"
         THEN /\ GotoExit(t, "CY_RSLT_ECM_STATIC_IP_NOT_SUPPORTED", <<>>)
              /\ UNCHANGED <<heap, nw>>
         ELSE IF ~add_ok
         THEN /\ GotoExit(t, "CY_RSLT_ECM_INTERFACE_ERROR", <<"cy_network_add_nw_interface">>)
              /\ UNCHANGED <<heap, nw>>
         ELSE /\ nw[eth_idx] < MaxAttach
              /\ nw' = [nw EXCEPT ![eth_idx] = nw[eth_idx] + 1]
              /\ heap' = [heap EXCEPT ![ecm_obj].iface_context = TRUE]
              /\ Goto(t, IF is_ethernet_link_up[eth_idx] # TRUE THEN "link_wait" ELSE "ip_up",
                      <<"cy_network_add_nw_interface", "cy_network_register_ip_change_cb">>)
    /\ UNCHANGED <<ecm_mutex, is_ecm_initialized, is_tcp_initialized, ecm_event_thread,
                   monitor, ecm_event_handler, is_ethernet_initiated, is_ethernet_link_up,
                   is_ecm_thread_created, app_handle, cycles, last_dispatch, ip_change>>

\* The polls of a link wait that is entered are answered by the PHY: first_up is
\* the number of polls answered "down" or with an error before the first poll
\* answered "up".
LinkPollChoices == {0, 1, 99, 100, 101}

\* A variant of the loop that has no ceiling.
link_wait_time_unbounded(first_up) == first_up * WAIT_CHECK_ETHERNET_PHY_STATUS

\* total_wait_time when the link-wait loop of cy_ecm_connect is left.
link_wait_time(first_up) ==
    LET n == LoopIterations(MAX_WAIT_ETHERNET_PHY_STATUS, WAIT_CHECK_ETHERNET_PHY_STATUS)
    IN  (IF first_up < n THEN first_up ELSE n) * WAIT_CHECK_ETHERNET_PHY_STATUS

\* The test after the link-wait loop.
LinkTimedOutNever(waited) == FALSE

LinkTimedOut(waited) == waited >= MAX_WAIT_ETHERNET_PHY_STATUS

\* The link wait of cy_ecm_connect: the polling loop and the test after it.
Connect_link_wait(t) ==
    /\ th[t].pc = "link_wait"
    /\ LET eth_idx == heap[th[t].h].eth_idx IN
       \E first_up \in LinkPollChoices :
         LET waited == link_wait_time(first_up) IN
         IF LinkTimedOut(waited)
         THEN /\ th' = [th EXCEPT ![t].pc = "exit", ![t].result = "CY_RSLT_ECM_ERROR",
                                  ![t].total_wait_time = waited,
                                  ![t].log = th[t].log \o <<"phy_get_linkstatus">>]
              /\ UNCHANGED is_ethernet_link_up
         ELSE /\ th' = [th EXCEPT ![t].pc = "ip_up", ![t].total_wait_time = waited,
                                  ![t].log = th[t].log \o <<"phy_get_linkstatus">>]
              /\ is_ethernet_link_up' = [is_ethernet_link_up EXCEPT ![eth_idx] = TRUE]
    /\ UNCHANGED <<ecm_mutex, is_ecm_initialized, is_tcp_initialized, ecm_event_thread,
                   monitor, ecm_event_handler, is_ethernet_initiated,
                   is_ecm_thread_created, heap, app_handle, nw, cycles, last_dispatch,
                   ip_change>>

\* A variant in which the interface stays attached.
remove_nw_interface_skipped(i) == nw

\* cy_network_remove_nw_interface on the interface context of index i.
remove_nw_interface(i) == [nw EXCEPT ![i] = IF nw[i] > 0 THEN nw[i] - 1 ELSE 0]

\* Translation of a cy_network_ip_up failure into the result of cy_ecm_connect.
ip_up_error(r) ==
    IF r = "CY_RSLT_NETWORK_ERROR_STARTING_DHCP" THEN "CY_RSLT_MODULE_ECM_ERROR_STARTING_DHCP"
    ELSE IF r = "CY_RSLT_NETWORK_DHCP_WAIT_TIMEOUT" THEN "CY_RSLT_ECM_DHCP_TIMEOUT"
    ELSE r

\* cy_network_ip_up and its failure branch.
Connect_ip_up(t) ==
    /\ th[t].pc = "ip_up"
    /\ LET eth_idx == heap[th[t].h].eth_idx IN
       \E r \in {"CY_RSLT_SUCCESS", "CY_RSLT_NETWORK_ERROR_STARTING_DHCP",
                 "CY_RSLT_NETWORK_DHCP_WAIT_TIMEOUT", "CY_RSLT_NETWORK_ERROR"} :
         IF r # "CY_RSLT_SUCCESS"
         THEN /\ nw' = remove_nw_interface(eth_idx)
              /\ GotoExit(t, ip_up_error(r),
                          <<"cy_network_ip_up", "cy_network_remove_nw_interface">>)
         ELSE /\ th' = [th EXCEPT ![t].pc = "dhcp_wait", ![t].total_wait_time = 0,
                                  ![t].log = th[t].log \o <<"cy_network_ip_up">>]
              /\ UNCHANGED nw
    /\ UNCHANGED <<ecm_mutex, is_ecm_initialized, is_tcp_initialized, ecm_event_thread,
                   monitor, ecm_event_handler, is_ethernet_initiated, is_ethernet_link_up,
                   is_ecm_thread_created, heap, app_handle, cycles, last_dispatch,
                   ip_change>>

\* The network stack first reports an address after k failed queries.
DhcpPollChoices == {0, 1, 600, 601, 5999}

\* The test after the address-wait loop.
DhcpTimedOutNever(waited) == FALSE

DhcpTimedOut(waited) == waited > DHCP_TIMEOUT_COUNT

\* The address-wait loop of cy_ecm_connect is left, after k more failed queries,
\* by the query that succeeds; then the timeout test and the end of the function.
Connect_dhcp_wait(t) ==
    /\ th[t].pc = "dhcp_wait"
    /\ LET ecm_obj == th[t].h
           eth_idx == heap[ecm_obj].eth_idx
       IN
       \E k \in DhcpPollChoices :
         LET waited == th[t].total_wait_time + k * RETRY_WAIT_TIME_GET_IP_ADDR IN
         IF DhcpTimedOut(waited)
         THEN /\ nw' = remove_nw_interface(eth_idx)
              /\ th' = [th EXCEPT ![t].pc = "exit", ![t].result = "CY_RSLT_ECM_DHCP_TIMEOUT",
                                  ![t].total_wait_time = waited,
                                  ![t].log = th[t].log \o <<"cy_network_get_ip_address",
                                             "cy_network_ip_down", "cy_network_remove_nw_interface">>]
              /\ UNCHANGED heap
         ELSE /\ heap' = [heap EXCEPT ![ecm_obj].network_up = TRUE]
              /\ th' = [th EXCEPT ![t].pc = "exit", ![t].result = "CY_RSLT_SUCCESS",
                                  ![t].total_wait_time = waited,
                                  ![t].log = th[t].log \o <<"cy_network_get_ip_address">>]
              /\ UNCHANGED nw
    /\ UNCHANGED <<ecm_mutex, is_ecm_initialized, is_tcp_initialized, ecm_event_thread,
                   monitor, ecm_event_handler, is_ethernet_initiated, is_ethernet_link_up,
                   is_ecm_thread_created, app_handle, cycles, last_dispatch, ip_change>>

\* The address-wait loop keeps polling while cy_network_get_ip_address fails:
\* the loop has no other way out.  One step stands for MaxDhcpPolls failed
\* queries in a row.
Connect_dhcp_poll(t) ==
    /\ th[t].pc = "dhcp_wait"
    /\ th[t].total_wait_time = 0
    /\ th' = [th EXCEPT ![t].total_wait_time = MaxDhcpPolls * RETRY_WAIT_TIME_GET_IP_ADDR,
                        ![t].log = th[t].log \o <<"cy_network_get_ip_address">>]
    /\ UNCHANGED <<ecm_mutex, globals>>

(***************************************************************************)
(* cy_ecm_disconnect                                                       *)
(***************************************************************************)
Call_disconnect(t, v) == CallOnHandle(t, "disconnect", v)

\* ecm_obj->network_up = false
mark_disconnected_not(obj) == heap

mark_disconnected(obj) == [heap EXCEPT ![obj].network_up = FALSE]

\* Body of cy_ecm_disconnect between the mutex acquire and the exit label.
Body_disconnect(t) ==
    /\ th[t].pc = "locked"
    /\ th[t].op = "disconnect"
    /\ LET ecm_obj == th[t].h
           eth_idx == heap[ecm_obj].eth_idx
       IN
       IF heap[ecm_obj].isobjinitialized # TRUE
       THEN /\ GotoExit(t, "CY_RSLT_MODULE_ECM_NOT_INITIALIZED", <<>>)
            /\ UNCHANGED <<heap, nw, cycles>>
       ELSE IF heap[ecm_obj].network_up = FALSE
       THEN /\ GotoExit(t, "CY_RSLT_MODULE_ECM_NOT_CONNECTED", <<>>)
            /\ UNCHANGED <<heap, nw, cycles>>
       ELSE /\ nw' = remove_nw_interface(eth_idx)
            /\ heap' = mark_disconnected(ecm_obj)
            /\ cycles' = [cycles EXCEPT ![ecm_obj] =
                             IF cycles[ecm_obj] < MaxCycles THEN cycles[ecm_obj] + 1 ELSE MaxCycles]
            /\ GotoExit(t, "CY_RSLT_SUCCESS",
                        <<"cy_network_register_ip_change_cb NULL", "cy_network_ip_down",
                          "cy_network_remove_nw_interface">>)
    /\ UNCHANGED <<ecm_mutex, is_ecm_initialized, is_tcp_initialized, ecm_event_thread,
                   monitor, ecm_event_handler, is_ethernet_initiated, is_ethernet_link_up,
                   is_ecm_thread_created, app_handle, last_dispatch, ip_change>>

(***************************************************************************)
(* cy_ecm_register_event_callback / cy_ecm_deregister_event_callback       *)
(***************************************************************************)
Slots == 0..(CY_ECM_MAXIMUM_CALLBACKS_COUNT - 1)

\* Entry of register / deregister: argument checks and is_ecm_initialized check.
\* event_callback = NULL stands for a null function pointer.
CallWithCallback(t, opname, v, event_callback) ==
    /\ th[t].pc = "idle"
    /\ IF app_handle[v] = NULL \/ event_callback = NULL
       THEN EarlyReturn(t, opname, "CY_RSLT_MODULE_ECM_BADARG")
       ELSE /\ ValidHandle(v)
            /\ ~BeingDestroyed(app_handle[v])
            /\ IF ~is_ecm_initialized
               THEN EarlyReturn(t, opname, "CY_RSLT_MODULE_ECM_NOT_INITIALIZED")
               ELSE th' = [th EXCEPT ![t] = [IdleThread EXCEPT !.pc = "lock", !.op = opname,
                                             !.h = app_handle[v], !.idx = v,
                                             !.arg = event_callback]]
    /\ UNCHANGED <<ecm_mutex, globals>>

Call_register_event_callback(t, v, cb) == CallWithCallback(t, "register", v, cb)

\* The application still holds in app_handle[v] the address that
\* cy_ecm_ethif_init stored there before it failed and freed the object, and
\* passes it to register / deregister.
CallWithStaleHandle(t, opname, v, event_callback) ==
    /\ th[t].pc = "idle"
    /\ opname \in {"register", "deregister"}
    /\ event_callback # NULL
    /\ app_handle[v] # NULL
    /\ ~heap[app_handle[v]].live
    /\ is_ecm_initialized
    /\ th' = [th EXCEPT ![t] = [IdleThread EXCEPT !.pc = "lock", !.op = opname,
                                                  !.h = app_handle[v], !.idx = v,
                                                  !.arg = event_callback]]
    /\ UNCHANGED <<ecm_mutex, globals>>

Call_deregister_event_callback(t, v, cb) == CallWithCallback(t, "deregister", v, cb)

\* The slots whose occupant equals x (x = NULL: the empty slots).
SlotsHolding(handlers, x) == {i \in Slots : handlers[i] = x}

\* The lowest slot of a non-empty set of slots.
FirstSlot(S) == CHOOSE i \in S : \A j \in S : i <= j

\* Variants of the two loops: a register that overwrites the last slot when
\* the table is full, and a deregister that clears every matching slot.
register_loop_overwriting(handlers, event_callback) ==
    [handlers EXCEPT ![IF SlotsHolding(handlers, NULL) = {}
                       THEN CY_ECM_MAXIMUM_CALLBACKS_COUNT - 1
                       ELSE FirstSlot(SlotsHolding(handlers, NULL))] = event_callback]

deregister_loop_all(handlers, event_callback) ==
    [i \in Slots |-> IF handlers[i] = event_callback THEN NULL ELSE handlers[i]]

\* The for loop of cy_ecm_register_event_callback.
register_loop(handlers, event_callback) ==
    IF SlotsHolding(handlers, NULL) = {} THEN handlers
    ELSE [handlers EXCEPT ![FirstSlot(SlotsHolding(handlers, NULL))] = event_callback]

\* The for loop of cy_ecm_deregister_event_callback.
deregister_loop(handlers, event_callback) ==
    IF SlotsHolding(handlers, event_callback) = {} THEN handlers
    ELSE [handlers EXCEPT ![FirstSlot(SlotsHolding(handlers, event_callback))] = NULL]

\* The value of the loop variable i when the for loop that looks for a slot
\* holding x is left: the slot at which it breaks, or
\* CY_ECM_MAXIMUM_CALLBACKS_COUNT when it finds none.
loop_exit_index(handlers, x) ==
    IF SlotsHolding(handlers, x) = {} THEN CY_ECM_MAXIMUM_CALLBACKS_COUNT
    ELSE FirstSlot(SlotsHolding(handlers, x))

\* What ecm_obj->isobjinitialized reads as: the field of a live object, any
\* value for an object that has been freed.
isobjinitialized_read(o) ==
    IF heap[o].live THEN {heap[o].isobjinitialized} ELSE BOOLEAN

Body_register_event_callback(t) ==
    /\ th[t].pc = "locked"
    /\ th[t].op = "register"
    /\ \E isobjinitialized \in isobjinitialized_read(th[t].h) :
         IF isobjinitialized # TRUE
         THEN /\ GotoExit(t, "CY_RSLT_MODULE_ECM_NOT_INITIALIZED", <<>>)
              /\ UNCHANGED ecm_event_handler
         ELSE /\ ecm_event_handler' = register_loop(ecm_event_handler, th[t].arg)
              /\ th' = [th EXCEPT ![t].pc = "exit", ![t].result = "CY_RSLT_SUCCESS",
                                  ![t].i = loop_exit_index(ecm_event_handler, NULL)]
    /\ UNCHANGED <<ecm_mutex, is_ecm_initialized, is_tcp_initialized, ecm_event_thread,
                   monitor, is_ethernet_initiated, is_ethernet_link_up,
                   is_ecm_thread_created, heap, app_handle, nw, cycles, last_dispatch,
                   ip_change>>

Body_deregister_event_callback(t) ==
    /\ th[t].pc = "locked"
    /\ th[t].op = "deregister"
    /\ \E isobjinitialized \in isobjinitialized_read(th[t].h) :
         IF isobjinitialized # TRUE
         THEN /\ GotoExit(t, "CY_RSLT_MODULE_ECM_NOT_INITIALIZED", <<>>)
              /\ UNCHANGED ecm_event_handler
         ELSE /\ ecm_event_handler' = deregister_loop(ecm_event_handler, th[t].arg)
              /\ th' = [th EXCEPT ![t].pc = "exit", ![t].result = "CY_RSLT_SUCCESS",
                                  ![t].i = loop_exit_index(ecm_event_handler, th[t].arg)]
    /\ UNCHANGED <<ecm_mutex, is_ecm_initialized, is_tcp_initialized, ecm_event_thread,
                   monitor, is_ethernet_initiated, is_ethernet_link_up,
                   is_ecm_thread_created, heap, app_handle, nw, cycles, last_dispatch,
                   ip_change>>

(***************************************************************************)
(* cy_ecm_get_link_status / cy_ecm_get_link_speed                          *)
(***************************************************************************)
Call_get_link_status(t, v) == CallOnHandle(t, "get_link_status", v)

\* is_ethernet_link_up after cy_ecm_get_link_status found the link of interface
\* i up or not: the function reports through *status only (the first variant
\* stores what it found).
link_status_cached(i, up) == [is_ethernet_link_up EXCEPT ![i] = up]

link_status_reported(i, up) == is_ethernet_link_up

\* The polling loop of cy_ecm_get_link_status and the test after it.  first_up
\* is the number of polls not answered "up" before the first one that is.
Body_get_link_status(t) ==
    /\ th[t].pc = "locked"
    /\ th[t].op = "get_link_status"
    /\ \E first_up \in LinkPollChoices :
         LET waited == link_wait_time(first_up) IN
         /\ th' = [th EXCEPT ![t].pc = "exit", ![t].result = "CY_RSLT_SUCCESS",
                             ![t].total_wait_time = waited,
                             ![t].out = IF waited >= MAX_WAIT_ETHERNET_PHY_STATUS
                                        THEN "false" ELSE "true",
                             ![t].log = <<"phy_get_linkstatus">>]
         /\ is_ethernet_link_up' =
                link_status_reported(heap[th[t].h].eth_idx,
                                     waited < MAX_WAIT_ETHERNET_PHY_STATUS)
    /\ UNCHANGED <<ecm_mutex, is_ecm_initialized, is_tcp_initialized, ecm_event_thread,
                   monitor, ecm_event_handler, is_ethernet_initiated,
                   is_ecm_thread_created, heap, app_handle, nw, cycles, last_dispatch,
                   ip_change>>

Call_get_link_speed(t, v) == CallOnHandle(t, "get_link_speed", v)

\* The polling loop of cy_ecm_get_link_speed.  first_ok is the number of
\* iterations before the first one in which the link is reported up and
\* phy_get_linkspeed succeeds.
Body_get_link_speed(t) ==
    /\ th[t].pc = "locked"
    /\ th[t].op = "get_link_speed"
    /\ \E first_ok \in LinkPollChoices :
         LET n      == LoopIterations(MAX_WAIT_ETHERNET_PHY_STATUS, WAIT_CHECK_ETHERNET_PHY_STATUS)
             waited == link_wait_time(first_ok)
         IN  th' = [th EXCEPT ![t].pc = "exit",
                              ![t].result = IF first_ok < n THEN "CY_RSLT_SUCCESS"
                                            ELSE "CY_RSLT_ECM_ERROR",
                              ![t].total_wait_time = waited,
                              ![t].out = IF first_ok < n THEN "value" ELSE "unset",
                              ![t].log = <<"phy_get_linkstatus">>]
    /\ UNCHANGED <<ecm_mutex, globals>>

(***************************************************************************)
(* Address getters and ping                                                *)
(***************************************************************************)
\* For each getter: the collaborator it queries, the error it reports when the
\* query fails, and whether it zeroes its output when the network is down.
Getters ==
    [get_ip_address      |-> [query |-> "cy_network_get_ip_address",
                              error |-> "CY_RSLT_ECM_IP_ADDR_ERROR", zeroes |-> TRUE],
     get_ipv6_address    |-> [query |-> "cy_network_get_ipv6_address",
                              error |-> "CY_RSLT_ECM_IPV6_INTERFACE_NOT_READY", zeroes |-> TRUE],
     get_gateway_address |-> [query |-> "cy_network_get_gateway_ip_address",
                              error |-> "CY_RSLT_ECM_GATEWAY_ADDR_ERROR", zeroes |-> TRUE],
     get_netmask_address |-> [query |-> "cy_network_get_netmask_address",
                              error |-> "CY_RSLT_ECM_GATEWAY_ADDR_ERROR", zeroes |-> TRUE],
     get_mac_address     |-> [query |-> "cy_network_get_gateway_mac_address",
                              error |-> "CY_RSLT_ECM_GATEWAY_ADDR_ERROR", zeroes |-> TRUE],
     ping                |-> [query |-> "cy_network_ping",
                              error |-> "CY_RSLT_ECM_PING_FAILURE", zeroes |-> FALSE]]

GetterNames == DOMAIN Getters

\* Entry of a getter.  cy_ecm_get_ipv6_address rejects a global address type
\* before it takes the mutex.
Call_getter(t, v, g) ==
    /\ th[t].pc = "idle"
    /\ \E link_local \in BOOLEAN :
         IF app_handle[v] # NULL /\ is_ecm_initialized /\ g = "get_ipv6_address" /\ ~link_local
         THEN /\ ValidHandle(v)
              /\ EarlyReturn(t, g, "CY_RSLT_ECM_IPV6_GLOBAL_ADDRESS_NOT_SUPPORTED")
              /\ UNCHANGED <<ecm_mutex, globals>>
         ELSE CallOnHandle(t, g, v)

\* The network_up check of the getters and of ping.
NetworkDownNever(obj) == FALSE

NetworkDown(obj) == heap[obj].network_up = FALSE

\* Body of a getter between the mutex acquire and the exit label.
Body_getter(t) ==
    /\ th[t].pc = "locked"
    /\ th[t].op \in GetterNames
    /\ LET g == Getters[th[t].op] IN
       \E query_ok \in BOOLEAN :
         IF NetworkDown(th[t].h)
         THEN th' = [th EXCEPT ![t].pc = "exit", ![t].result = "CY_RSLT_MODULE_ECM_NOT_CONNECTED",
                               ![t].out = IF g.zeroes THEN "zero" ELSE "unset"]
         ELSE IF ~query_ok
         THEN th' = [th EXCEPT ![t].pc = "exit", ![t].result = g.error,
                               ![t].out = IF th[t].op = "get_ipv6_address" THEN "zero" ELSE "unset",
                               ![t].log = <<g.query>>]
         ELSE th' = [th EXCEPT ![t].pc = "exit", ![t].result = "CY_RSLT_SUCCESS",
                               ![t].out = "value", ![t].log = <<g.query>>]
    /\ UNCHANGED <<ecm_mutex, globals>>

(***************************************************************************)
(* cy_ecm_set_filter_address                                               *)
(***************************************************************************)
\* The entries an application may pass: a filter type, a MAC address (two
\* distinct addresses are told apart) and a mask of bytes to ignore.
FilterEntries ==
    {[filter_type |-> 1, filter_addr |-> 1, ignoreBytes |-> 0],
     [filter_type |-> 2, filter_addr |-> 1, ignoreBytes |-> 1],
     [filter_type |-> 1, filter_addr |-> 2, ignoreBytes |-> 1]}

\* The arrays of n entries.
FilterArrays(n) == [1..n -> FilterEntries]

\* Entry of cy_ecm_set_filter_address: the argument checks, with the test on
\* filter_address_count, and the is_ecm_initialized check.  filter_address is
\* the array passed, of filter_address_count entries.
Call_set_filter_address(t, v, filter_address) ==
    /\ th[t].pc = "idle"
    /\ LET filter_address_count == Len(filter_address) IN
       IF \/ app_handle[v] = NULL
          \/ filter_address_count = 0
          \/ filter_address_count > CY_ECM_MAX_FILTER_ADDRESS
       THEN EarlyReturn(t, "set_filter_address", "CY_RSLT_MODULE_ECM_BADARG")
       ELSE /\ ValidHandle(v)
            /\ ~BeingDestroyed(app_handle[v])
            /\ IF ~is_ecm_initialized
               THEN EarlyReturn(t, "set_filter_address", "CY_RSLT_MODULE_ECM_NOT_INITIALIZED")
               ELSE th' = [th EXCEPT ![t] = [IdleThread EXCEPT !.pc = "lock",
                                             !.op = "set_filter_address",
                                             !.h = app_handle[v], !.idx = v,
                                             !.arg = filter_address, !.out = <<>>]]
    /\ UNCHANGED <<ecm_mutex, globals>>

\* The filter_config that iteration i of the loop hands to
\* Cy_ETHIF_SetFilterAddress for filter number i + 1 (the array is indexed
\* from 1 here, so entry i of the code is filter_address[i + 1]): type and
\* address of entry i, ignoreBytes read through filter_address->ignoreBytes.
filter_config(filter_address, i) ==
    [num         |-> i + 1,
     typeFilter  |-> filter_address[i + 1].filter_type,
     filterAddr  |-> filter_address[i + 1].filter_addr,
     ignoreBytes |-> filter_address[1].ignoreBytes]

\* Body of cy_ecm_set_filter_address between the mutex acquire and the exit
\* label.  written is the number of calls of Cy_ETHIF_SetFilterAddress that
\* succeed before the first one that fails; out collects the filters programmed.
Body_set_filter_address(t) ==
    /\ th[t].pc = "locked"
    /\ th[t].op = "set_filter_address"
    /\ LET ecm_obj              == th[t].h
           filter_address       == th[t].arg
           filter_address_count == Len(filter_address)
       IN
       IF heap[ecm_obj].isobjinitialized # TRUE
       THEN GotoExit(t, "CY_RSLT_MODULE_ECM_NOT_INITIALIZED", <<>>)
       ELSE IF is_ethernet_initiated[heap[ecm_obj].eth_idx] = FALSE
       THEN GotoExit(t, "CY_RSLT_MODULE_ECM_NOT_INITIALIZED", <<>>)
       ELSE \E written \in 0..filter_address_count :
              th' = [th EXCEPT ![t].pc = "exit",
                               ![t].result = IF written < filter_address_count
                                             THEN "CY_RSLT_ECM_ERROR" ELSE "CY_RSLT_SUCCESS",
                               ![t].out = [k \in 1..written |->
                                             filter_config(filter_address, k - 1)],
                               ![t].log = [k \in 1..(IF written < filter_address_count
                                                     THEN written + 1 ELSE written) |->
                                             "Cy_ETHIF_SetFilterAddress"]]
    /\ UNCHANGED <<ecm_mutex, globals>>

(***************************************************************************)
(* Event dispatch and the link-monitor thread                              *)
(***************************************************************************)
\* invoke_app_callbacks: the callbacks invoked, in the order of invocation,
\* each with the slot it was read from.
RECURSIVE invoke_from(_, _, _)
invoke_from(handlers, event, i) ==
    IF i >= CY_ECM_MAXIMUM_CALLBACKS_COUNT THEN <<>>
    ELSE IF handlers[i] # NULL
         THEN <<[slot |-> i, cb |-> handlers[i], event |-> event]>>
              \o invoke_from(handlers, event, i + 1)
    ELSE invoke_from(handlers, event, i + 1)

\* A variant whose loop stops at the first empty slot.
invoke_app_callbacks_until_empty(handlers, event) ==
    invoke_from([i \in Slots |-> IF \E j \in 0..i : handlers[j] = NULL
                                 THEN NULL ELSE handlers[i]], event, 0)

invoke_app_callbacks(handlers, event) == invoke_from(handlers, event, 0)

\* The addresses cy_network_get_ip_address may report.
IpAddresses == {1, 2}

\* The test on the answer of cy_network_get_ip_address in ip_change_callback
\* (the first variant dispatches whatever the query answered).
QuerySucceededAlways(res) == TRUE

QuerySucceeded(res) == res = "CY_RSLT_SUCCESS"

\* ip_change_callback, which the network stack calls on its own thread for an
\* attached interface whose address changed: memset of the event data, the
\* address query, and the dispatch if the query succeeded.
ip_change_callback ==
    /\ \E i \in Interfaces : nw[i] > 0
    /\ \E res \in {"CY_RSLT_SUCCESS", "CY_RSLT_NETWORK_ERROR"}, ipv4_addr \in IpAddresses :
         LET answered        == IF res = "CY_RSLT_SUCCESS" THEN ipv4_addr ELSE 0
             link_event_data == IF QuerySucceeded(res)
                                THEN [version |-> "CY_ECM_IP_VER_V4", v4 |-> answered]
                                ELSE [version |-> "0", v4 |-> 0]
         IN  /\ ip_change' = [seq |-> 1 - ip_change.seq, res |-> res,
                              queried |-> answered, data |-> link_event_data]
             /\ last_dispatch' = IF QuerySucceeded(res)
                                 THEN invoke_app_callbacks(ecm_event_handler,
                                                           "CY_ECM_EVENT_IP_CHANGED")
                                 ELSE last_dispatch
    /\ UNCHANGED <<ecm_mutex, is_ecm_initialized, is_tcp_initialized, ecm_event_thread,
                   monitor, ecm_event_handler, is_ethernet_initiated, is_ethernet_link_up,
                   is_ecm_thread_created, heap, app_handle, nw, cycles, th>>

\* The interface one iteration of the monitor loop evaluates: ETH0 if it is
\* initiated, else ETH1 if it is initiated, else none.
MonitoredIndex ==
    IF is_ethernet_initiated[CY_ECM_INTERFACE_ETH0] = TRUE THEN CY_ECM_INTERFACE_ETH0
    ELSE IF is_ethernet_initiated[CY_ECM_INTERFACE_ETH1] = TRUE THEN CY_ECM_INTERFACE_ETH1
    ELSE NoIndex

\* A variant that takes a failed poll for a link that is down.
link_event_error_as_down(i, status) ==
    IF i = NoIndex THEN "none"
    ELSE IF status = "up" /\ is_ethernet_link_up[i] = FALSE THEN "CY_ECM_EVENT_CONNECTED"
    ELSE IF status # "up" /\ is_ethernet_link_up[i] = TRUE THEN "CY_ECM_EVENT_DISCONNECTED"
    ELSE "none"

\* The event one iteration dispatches for interface i when phy_get_linkstatus
\* answers status ("up", "down" or "error"), "none" if it dispatches nothing.
link_event(i, status) ==
    IF i = NoIndex THEN "none"
    ELSE IF status = "up" /\ is_ethernet_link_up[i] = FALSE THEN "CY_ECM_EVENT_CONNECTED"
    ELSE IF status = "down" /\ is_ethernet_link_up[i] = TRUE THEN "CY_ECM_EVENT_DISCONNECTED"
    ELSE "none"

\* The assignment to is_ethernet_link_up[i] that goes with the event.
link_cache(i, event) ==
    IF event = "CY_ECM_EVENT_CONNECTED" THEN [is_ethernet_link_up EXCEPT ![i] = TRUE]
    ELSE IF event = "CY_ECM_EVENT_DISCONNECTED" THEN [is_ethernet_link_up EXCEPT ![i] = FALSE]
    ELSE is_ethernet_link_up

\* The monitor thread is scheduled whenever it exists and has not been
\* terminated: it takes no lock (the first variant makes it wait for ecm_mutex).
MonitorRunsWhenUnlocked == monitor.count > 0 /\ ecm_mutex.owner = NULL

MonitorRuns == monitor.count > 0

\* One whole iteration of the while( true ) loop of ecm_event_thread_func.
\* status is what phy_get_linkstatus answers: "up", "down" or "error".
ecm_event_thread_func ==
    /\ MonitorRuns
    /\ monitor.pc = "loop"
    /\ \E status \in {"up", "down", "error"} :
         LET i     == MonitoredIndex
             event == link_event(i, status)
         IN  /\ is_ethernet_link_up' = link_cache(i, event)
             /\ last_dispatch' = IF event = "none" THEN last_dispatch
                                 ELSE invoke_app_callbacks(ecm_event_handler, event)
    /\ UNCHANGED <<ecm_mutex, is_ecm_initialized, is_tcp_initialized, ecm_event_thread,
                   monitor, ecm_event_handler, is_ethernet_initiated,
                   is_ecm_thread_created, heap, app_handle, nw, cycles, th, ip_change>>

\* The same iteration followed step by step.  First step: the branch on
\* is_ethernet_initiated and the call of phy_get_linkstatus through phy_cb.
monitor_poll ==
    /\ MonitorRuns
    /\ monitor.pc = "loop"
    /\ \E status \in {"up", "down", "error"} :
         monitor' = [monitor EXCEPT !.pc = "polled", !.idx = MonitoredIndex,
                                    !.status = IF MonitoredIndex = NoIndex THEN "none" ELSE status,
                                    !.event = "none"]
    /\ UNCHANGED <<ecm_mutex, is_ecm_initialized, is_tcp_initialized, ecm_event_thread,
                   ecm_event_handler, is_ethernet_initiated, is_ethernet_link_up,
                   is_ecm_thread_created, heap, app_handle, nw, cycles, last_dispatch, th,
                   ip_change>>

\* Second step: the tests on result, linkstatus and is_ethernet_link_up, the
\* assignment to the cache and the dispatch; then the delay.
monitor_evaluate ==
    /\ MonitorRuns
    /\ monitor.pc = "polled"
    /\ LET i     == monitor.idx
           event == link_event(i, monitor.status)
       IN  /\ is_ethernet_link_up' = link_cache(i, event)
           /\ last_dispatch' = IF event = "none" THEN last_dispatch
                               ELSE invoke_app_callbacks(ecm_event_handler, event)
           /\ monitor' = [monitor EXCEPT !.pc = "loop", !.event = event]
    /\ UNCHANGED <<ecm_mutex, is_ecm_initialized, is_tcp_initialized, ecm_event_thread,
                   ecm_event_handler, is_ethernet_initiated,
                   is_ecm_thread_created, heap, app_handle, nw, cycles, th, ip_change>>

\* The iteration with invoke_app_callbacks followed read by read.  After
\* monitor_poll: the tests on result, linkstatus and is_ethernet_link_up and the
\* assignment to the cache, up to the call of invoke_app_callbacks.
monitor_signal ==
    /\ MonitorRuns
    /\ monitor.pc = "polled"
    /\ LET i     == monitor.idx
           event == link_event(i, monitor.status)
       IN  /\ is_ethernet_link_up' = link_cache(i, event)
           /\ IF event = "none"
              THEN /\ monitor' = [monitor EXCEPT !.pc = "loop", !.event = event]
                   /\ UNCHANGED last_dispatch
              ELSE /\ monitor' = [monitor EXCEPT !.pc = "check", !.event = event,
                                                 !.slot = 0, !.seen = NULL]
                   /\ last_dispatch' = <<>>
    /\ UNCHANGED <<ecm_mutex, is_ecm_initialized, is_tcp_initialized, ecm_event_thread,
                   ecm_event_handler, is_ethernet_initiated,
                   is_ecm_thread_created, heap, app_handle, nw, cycles, th, ip_change>>

\* i++ of the loop of invoke_app_callbacks; after the last slot the function
\* returns and the monitor goes to its delay.
next_slot(m) ==
    IF m.slot + 1 < CY_ECM_MAXIMUM_CALLBACKS_COUNT
    THEN [m EXCEPT !.pc = "check", !.slot = m.slot + 1, !.seen = NULL]
    ELSE [m EXCEPT !.pc = "loop", !.slot = 0, !.seen = NULL]

\* if( ecm_event_handler[i] != NULL ): the first read of the slot, made
\* without ecm_mutex.
invoke_check ==
    /\ MonitorRuns
    /\ monitor.pc = "check"
    /\ monitor' = IF ecm_event_handler[monitor.slot] # NULL
                  THEN [monitor EXCEPT !.pc = "call", !.seen = ecm_event_handler[monitor.slot]]
                  ELSE next_slot(monitor)
    /\ UNCHANGED <<ecm_mutex, is_ecm_initialized, is_tcp_initialized, ecm_event_thread,
                   ecm_event_handler, is_ethernet_initiated, is_ethernet_link_up,
                   is_ecm_thread_created, heap, app_handle, nw, cycles, last_dispatch, th,
                   ip_change>>

\* ecm_event_handler[i]( event_type, arg ): the call.  The slot is read
\* without ecm_mutex while register and deregister write it under the mutex,
\* so the pointer called is either the one the test loaded or the one the slot
\* holds now; a call through a null pointer is recorded as an invocation of NULL.
invoke_call ==
    /\ MonitorRuns
    /\ monitor.pc = "call"
    /\ \E target \in {monitor.seen, ecm_event_handler[monitor.slot]} :
         last_dispatch' = Append(last_dispatch, [slot |-> monitor.slot, cb |-> target,
                                                 event |-> monitor.event])
    /\ monitor' = next_slot(monitor)
    /\ UNCHANGED <<ecm_mutex, is_ecm_initialized, is_tcp_initialized, ecm_event_thread,
                   ecm_event_handler, is_ethernet_initiated, is_ethernet_link_up,
                   is_ecm_thread_created, heap, app_handle, nw, cycles, th, ip_change>>

\* The life-cycle calls made by the threads in T on the interfaces in V.
LifecycleOf(T, V) ==
    \/ \E t \in T : cy_ecm_init(t)
    \/ \E t \in T, v \in V \cup {CY_ECM_INTERFACE_INVALID} : Call_ethif_init(t, v)
    \/ \E t \in T : Body_ethif_init(t)
    \/ \E t \in T, v \in V : Call_ethif_deinit(t, v)
    \/ \E t \in T : Body_ethif_deinit(t)
    \/ \E t \in T, v \in V : Call_connect(t, v)
    \/ \E t \in T : Body_connect(t)
    \/ \E t \in T : Connect_link_wait(t)
    \/ \E t \in T : Connect_ip_up(t)
    \/ \E t \in T : Connect_dhcp_wait(t)
    \/ \E t \in T : Connect_dhcp_poll(t)
    \/ \E t \in T, v \in V : Call_disconnect(t, v)
    \/ \E t \in T : Body_disconnect(t)
    \/ \E t \in T : Acquire(t)
    \/ \E t \in T : Release(t)
    \/ \E t \in T : Return(t)

\* The calls that do not change the life cycle of a handle, made by the threads
\* in T on the interfaces in V with the listener functions in C: listeners, link
\* queries, address getters and ping.
QueryOf(T, V, C) ==
    \/ \E t \in T, v \in V, cb \in C \cup {NULL} : Call_register_event_callback(t, v, cb)
    \/ \E t \in T : Body_register_event_callback(t)
    \/ \E t \in T, v \in V, cb \in C \cup {NULL} : Call_deregister_event_callback(t, v, cb)
    \/ \E t \in T : Body_deregister_event_callback(t)
    \/ \E t \in T, v \in V : Call_get_link_status(t, v)
    \/ \E t \in T : Body_get_link_status(t)
    \/ \E t \in T, v \in V : Call_get_link_speed(t, v)
    \/ \E t \in T : Body_get_link_speed(t)
    \/ \E t \in T, v \in V, g \in GetterNames : Call_getter(t, v, g)
    \/ \E t \in T : Body_getter(t)

\* One application thread using both interfaces, and the link monitor.
Next ==
    \/ LifecycleOf({1}, Interfaces)
    \/ ecm_event_thread_func

Spec == Init /\ [][Next]_vars

\* Concurrent application threads sharing the handle of one interface, and the
\* link monitor.
NextConc ==
    \/ LifecycleOf(Callers, {CY_ECM_INTERFACE_ETH0})
    \/ ecm_event_thread_func

SpecConc == Init /\ [][NextConc]_vars

\* Two application threads that use every call of the API on the handle of one
\* interface and register one listener function.  The link monitor never takes
\* ecm_mutex and is left out here.
TwoCallers == {1, 2}
OneCallback == {1}

NextApi ==
    \/ LifecycleOf(TwoCallers, {CY_ECM_INTERFACE_ETH0})
    \/ QueryOf(TwoCallers, {CY_ECM_INTERFACE_ETH0}, OneCallback)

SpecApi == Init /\ [][NextApi]_vars

\* The calls that create and destroy handles, made by the threads in T on the
\* interfaces in V.
CreateDestroyOf(T, V) ==
    \/ \E t \in T : cy_ecm_init(t)
    \/ \E t \in T, v \in V \cup {CY_ECM_INTERFACE_INVALID} : Call_ethif_init(t, v)
    \/ \E t \in T : Body_ethif_init(t)
    \/ \E t \in T, v \in V : Call_ethif_deinit(t, v)
    \/ \E t \in T : Body_ethif_deinit(t)
    \/ \E t \in T : Acquire(t)
    \/ \E t \in T : Release(t)
    \/ \E t \in T : Return(t)

\* One application thread that creates and destroys the handles of both
\* interfaces, and the link monitor followed step by step.
NextMonitor ==
    \/ CreateDestroyOf({1}, Interfaces)
    \/ monitor_poll
    \/ monitor_evaluate

SpecMonitor == Init /\ [][NextMonitor]_vars

\* One application thread that creates, connects, disconnects and destroys the
\* handles of both interfaces, and the link monitor followed step by step.
NextLink ==
    \/ LifecycleOf({1}, Interfaces)
    \/ monitor_poll
    \/ monitor_evaluate

SpecLink == Init /\ [][NextLink]_vars

\* The listener calls made by the threads in T on the handles of the
\* interfaces in V with the listener functions in C, on live handles and on
\* the handles a failed create left behind.
ListenerOf(T, V, C) ==
    \/ \E t \in T, v \in V, cb \in C \cup {NULL} : Call_register_event_callback(t, v, cb)
    \/ \E t \in T, v \in V, cb \in C \cup {NULL} : Call_deregister_event_callback(t, v, cb)
    \/ \E t \in T, v \in V, cb \in C, opname \in {"register", "deregister"} :
         CallWithStaleHandle(t, opname, v, cb)
    \/ \E t \in T : Body_register_event_callback(t)
    \/ \E t \in T : Body_deregister_event_callback(t)

\* One application thread that creates and destroys the handle of one interface
\* and registers and deregisters listener functions, and the link monitor.
NextListen ==
    \/ CreateDestroyOf({1}, {CY_ECM_INTERFACE_ETH0})
    \/ ListenerOf({1}, {CY_ECM_INTERFACE_ETH0}, CallbackIds)
    \/ ecm_event_thread_func

SpecListen == Init /\ [][NextListen]_vars

\* One application thread that holds ecm_mutex through the waits of its calls
\* on one interface, and the link monitor followed step by step.
NextHeld ==
    \/ LifecycleOf({1}, {CY_ECM_INTERFACE_ETH0})
    \/ monitor_poll
    \/ monitor_evaluate

SpecHeld == Init /\ [][NextHeld]_vars

\* The monitor thread is not starved: each of its two steps is taken if it
\* stays possible (the thread only sleeps CY_POLL_ETHERNET_PHY_STATUS_TIME
\* between iterations).
SpecMonitorFair ==
    SpecMonitor /\ WF_vars(monitor_poll) /\ WF_vars(monitor_evaluate)

\* One application thread whose calls on one interface can fail to release
\* ecm_mutex.
NextFault ==
    \/ LifecycleOf({1}, {CY_ECM_INTERFACE_ETH0})
    \/ \E t \in {1} : ReleaseFails(t)

SpecFault == Init /\ [][NextFault]_vars

\* One application thread that initializes and deinitializes the manager and
\* creates and destroys the handles of both interfaces in between.
NextInit ==
    \/ CreateDestroyOf({1}, Interfaces)
    \/ \E t \in {1} : cy_ecm_deinit(t)

SpecInit == Init /\ [][NextInit]_vars

\* One application thread that uses every call of the API on one interface,
\* cy_ecm_deinit included, and the link monitor.
NextFrame ==
    \/ LifecycleOf({1}, {CY_ECM_INTERFACE_ETH0})
    \/ QueryOf({1}, {CY_ECM_INTERFACE_ETH0}, OneCallback)
    \/ \E t \in {1} : cy_ecm_deinit(t)
    \/ ecm_event_thread_func

SpecFrame == Init /\ [][NextFrame]_vars

\* One application thread that creates and destroys the handle of one interface
\* and registers and deregisters one listener function, and the link monitor
\* with its dispatch followed read by read.
NextDispatch ==
    \/ CreateDestroyOf({1}, {CY_ECM_INTERFACE_ETH0})
    \/ ListenerOf({1}, {CY_ECM_INTERFACE_ETH0}, OneCallback)
    \/ monitor_poll
    \/ monitor_signal
    \/ invoke_check
    \/ invoke_call

SpecDispatch == Init /\ [][NextDispatch]_vars

\* Two application threads that create, connect, disconnect and destroy the
\* handle of one interface and that initialise and de-initialise the manager.
NextTeardown ==
    \/ LifecycleOf(TwoCallers, {CY_ECM_INTERFACE_ETH0})
    \/ \E t \in TwoCallers : cy_ecm_deinit(t)

SpecTeardown == Init /\ [][NextTeardown]_vars

\* Two application threads that create and destroy the handles of both
\* interfaces, also both at once through the same handle.
NextDestroy ==
    \/ CreateDestroyOf(TwoCallers, Interfaces)
    \/ \E t \in TwoCallers, v \in Interfaces : Call_ethif_deinit_racing(t, v)
    \/ \E t \in TwoCallers : Body_ethif_deinit_freed(t)

SpecDestroy == Init /\ [][NextDestroy]_vars

\* Two application threads that create and destroy the handle of one interface
\* and call the getters and ping on it, with a cy_rtos_get_mutex that can fail.
NextAcquire ==
    \/ CreateDestroyOf(TwoCallers, {CY_ECM_INTERFACE_ETH0})
    \/ \E t \in TwoCallers, g \in GetterNames : Call_getter(t, CY_ECM_INTERFACE_ETH0, g)
    \/ \E t \in TwoCallers : Body_getter(t)
    \/ \E t \in TwoCallers : AcquireFails(t)

SpecAcquire == Init /\ [][NextAcquire]_vars

\* One application thread that creates and destroys the handles of both
\* interfaces, with a PHY whose auto-negotiation may stay incomplete.
NextPhy ==
    \/ CreateDestroyOf({1}, Interfaces)
    \/ \E t \in {1} : cy_eth_phy_initialization_poll(t)

SpecPhy == Init /\ [][NextPhy]_vars

\* One application thread that creates, connects, disconnects and destroys the
\* handle of one interface and registers and deregisters one listener function,
\* and the network stack reporting address changes.
NextIp ==
    \/ LifecycleOf({1}, {CY_ECM_INTERFACE_ETH0})
    \/ \E t \in {1}, cb \in OneCallback :
         Call_register_event_callback(t, CY_ECM_INTERFACE_ETH0, cb)
    \/ \E t \in {1} : Body_register_event_callback(t)
    \/ \E t \in {1}, cb \in OneCallback :
         Call_deregister_event_callback(t, CY_ECM_INTERFACE_ETH0, cb)
    \/ \E t \in {1} : Body_deregister_event_callback(t)
    \/ ip_change_callback

SpecIp == Init /\ [][NextIp]_vars

\* One application thread that creates and destroys the handle of one interface
\* and installs MAC address filters on it.
NextFilter ==
    \/ CreateDestroyOf({1}, {CY_ECM_INTERFACE_ETH0})
    \/ \E t \in {1}, n \in 0..(CY_ECM_MAX_FILTER_ADDRESS + 1) :
         \E filter_address \in FilterArrays(n) :
           Call_set_filter_address(t, CY_ECM_INTERFACE_ETH0, filter_address)
    \/ \E t \in {1} : Body_set_filter_address(t)

SpecFilter == Init /\ [][NextFilter]_vars

(***************************************************************************)
(* Properties                                                              *)
(***************************************************************************)
\* Thread t is between its acquire of ecm_mutex and its release of it.
InLockedSection(t) == th[t].pc \in {"locked", "link_wait", "ip_up", "dhcp_wait", "exit"}

\* The call of thread t has issued the collaborator call named call.
Issued(t, call) == \E k \in 1..Len(th[t].log) : th[t].log[k] = call

\* The step is one in which thread t moves from position p to position q.
Moves(t, opname, p, q) ==
    th[t].op = opname /\ th[t].pc = p /\ th'[t].pc = q

NoCreateDestroyInProgress ==
    \A t \in Callers : th[t].pc = "idle" \/ th[t].op \notin {"create", "destroy"}

LiveObjects(i) == {o \in ObjIds : heap[o].live /\ heap[o].eth_idx = i}

\* C3: there is at most one live object per interface index, also with
\* concurrent creates on one index; a create whose locked section finds
\* is_ethernet_initiated[index] true returns CY_RSLT_ECM_INIT_ERROR and changes
\* neither the initiated flags, the reference count, the monitor thread, the
\* heap nor the application's handle.
C3_OneHandlePerIndex ==
    /\ [](\A i \in Interfaces : Cardinality(LiveObjects(i)) <= 1)
    /\ [][\A t \in Callers :
            (Moves(t, "create", "locked", "exit") /\ is_ethernet_initiated[th[t].idx] = TRUE)
            => /\ th'[t].result = "CY_RSLT_ECM_INIT_ERROR"
               /\ UNCHANGED <<is_ethernet_initiated, is_ecm_thread_created, monitor,
                              ecm_event_thread, heap, app_handle>>]_vars

\* C3 case: a create has been rejected on an index that holds a live handle
\* while another thread's create is blocked in the acquire.
C3_Witness ==
    \E t, u \in Callers :
        /\ Returns(t, "create", "CY_RSLT_ECM_INIT_ERROR")
        /\ th[t].pre = TRUE
        /\ ValidHandle(th[t].idx)
        /\ th[u].op = "create" /\ th[u].pc = "lock" /\ th[u].idx = th[t].idx

\* C4 as stated: whenever create returns an error from its locked section after
\* finding the index free, is_ethernet_initiated[index] has the value it had
\* before the call and the allocated object has been freed.
C4_CreateErrorRestoresFlag ==
    \A t \in Callers :
        (th[t].pc = "exit" /\ th[t].op = "create"
         /\ th[t].result \in {"CY_RSLT_ECM_ERROR_NOMEM", "CY_RSLT_ECM_MUTEX_ERROR",
                              "CY_RSLT_ECM_ERROR"})
        => /\ is_ethernet_initiated[th[t].idx] = th[t].pre
           /\ th[t].h # NULL => ~heap[th[t].h].live

\* C5 as stated: whenever connect returns an error after it has attached the
\* interface it has detached it again, so that no interface is ever attached
\* twice without a detach in between.
C5_ConnectErrorDetaches ==
    /\ \A t \in Callers :
         (th[t].pc = "exit" /\ th[t].op = "connect" /\ th[t].result # "CY_RSLT_SUCCESS"
          /\ Issued(t, "cy_network_register_ip_change_cb"))
         => Issued(t, "cy_network_remove_nw_interface")
    /\ \A i \in Interfaces : nw[i] <= 1

\* C6 as stated: the address wait of connect ends at the ceiling of
\* DHCP_TIMEOUT_COUNT polls of RETRY_WAIT_TIME_GET_IP_ADDR ms: no connect is
\* still in its address wait after more than that.
C6_DhcpWaitEndsAtCeiling ==
    \A t \in Callers :
        th[t].pc = "dhcp_wait"
        => th[t].total_wait_time <= DHCP_TIMEOUT_COUNT * RETRY_WAIT_TIME_GET_IP_ADDR

\* C7 as stated: when the address is first reported after k < DHCP_TIMEOUT_COUNT
\* polls, connect returns success with the handle marked connected, and has
\* neither brought IP down nor detached the interface.
C7_AddressWithinCeilingSucceeds ==
    \A t \in Callers :
        (th[t].pc = "exit" /\ th[t].op = "connect"
         /\ Issued(t, "cy_network_get_ip_address")
         /\ th[t].total_wait_time < DHCP_TIMEOUT_COUNT * RETRY_WAIT_TIME_GET_IP_ADDR)
        => /\ th[t].result = "CY_RSLT_SUCCESS"
           /\ heap[th[t].h].network_up = TRUE
           /\ ~Issued(t, "cy_network_ip_down")
           /\ ~Issued(t, "cy_network_remove_nw_interface")

\* The call of thread t has left cy_ecm_connect directly from its link wait.
LeftFromLinkWait(t) ==
    /\ th[t].pc = "exit" /\ th[t].op = "connect"
    /\ Len(th[t].log) > 0
    /\ th[t].log[Len(th[t].log)] = "phy_get_linkstatus"

\* C8: a connect whose link wait never sees the link up polls every
\* WAIT_CHECK_ETHERNET_PHY_STATUS ms up to MAX_WAIT_ETHERNET_PHY_STATUS ms and
\* then fails (CY_RSLT_ECM_ERROR) within one poll interval of the ceiling with
\* the handle not connected; a connect only goes on to bring IP up when it has
\* waited less than the ceiling; the failing step changes neither
\* is_ethernet_initiated nor is_ethernet_link_up.
C8_LinkTimeout ==
    /\ [](\A t \in Callers :
            LeftFromLinkWait(t)
            => /\ th[t].result = "CY_RSLT_ECM_ERROR"
               /\ th[t].total_wait_time >= MAX_WAIT_ETHERNET_PHY_STATUS
               /\ th[t].total_wait_time <
                      MAX_WAIT_ETHERNET_PHY_STATUS + WAIT_CHECK_ETHERNET_PHY_STATUS
               /\ th[t].total_wait_time % WAIT_CHECK_ETHERNET_PHY_STATUS = 0
               /\ heap[th[t].h].network_up = FALSE)
    /\ [](\A t \in Callers :
            th[t].pc = "ip_up" => th[t].total_wait_time < MAX_WAIT_ETHERNET_PHY_STATUS)
    /\ [][\A t \in Callers :
            Moves(t, "connect", "link_wait", "exit")
            => UNCHANGED <<is_ethernet_initiated, is_ethernet_link_up, heap>>]_vars

\* C8 case: a connect has timed out in its link wait.
C8_Witness ==
    \E t \in Callers :
        /\ LeftFromLinkWait(t)
        /\ th[t].total_wait_time = MAX_WAIT_ETHERNET_PHY_STATUS
        /\ is_ethernet_link_up[th[t].idx] = FALSE

\* C9: a connect on a handle that is already connected returns
\* CY_RSLT_MODULE_ECM_ALREADY_CONNECTED, issues no collaborator call, and leaves
\* the handle connected and all global state unchanged.
C9_ConnectWhenConnected ==
    [][\A t \in Callers :
         (Moves(t, "connect", "locked", th'[t].pc) /\ th'[t] # th[t]
          /\ heap[th[t].h].isobjinitialized = TRUE /\ heap[th[t].h].network_up = TRUE)
         => /\ th'[t].pc = "exit"
            /\ th'[t].result = "CY_RSLT_MODULE_ECM_ALREADY_CONNECTED"
            /\ th'[t].log = <<>>
            /\ heap'[th[t].h].network_up = TRUE
            /\ UNCHANGED globals]_vars

\* C9 case: a connect on a connected handle has been rejected.
C9_Witness ==
    \E t \in Callers :
        /\ Returns(t, "connect", "CY_RSLT_MODULE_ECM_ALREADY_CONNECTED")
        /\ heap[th[t].h].network_up = TRUE

\* The collaborator calls of a disconnect, in order.
DisconnectCalls ==
    <<"cy_network_register_ip_change_cb NULL", "cy_network_ip_down",
      "cy_network_remove_nw_interface">>

\* The collaborator calls of a connect that finds the link up and whose every
\* collaborator call succeeds, in order.
ConnectCalls ==
    <<"cy_network_add_nw_interface", "cy_network_register_ip_change_cb",
      "cy_network_ip_up", "cy_network_get_ip_address">>

\* C10: after any number of connect/disconnect cycles, a disconnect on a
\* connected handle unsubscribes, brings IP down, detaches the interface and
\* clears network_up; a disconnect on a handle that is not connected returns
\* CY_RSLT_MODULE_ECM_NOT_CONNECTED and issues no collaborator call; a connect that
\* finds the link up and whose every collaborator call succeeds returns success
\* with the handle connected.
C10_DisconnectThenConnect ==
    /\ [][\A t \in Callers :
            (Moves(t, "disconnect", "locked", "exit") /\ heap[th[t].h].isobjinitialized = TRUE)
            => IF heap[th[t].h].network_up = TRUE
               THEN /\ th'[t].result = "CY_RSLT_SUCCESS"
                    /\ th'[t].log = DisconnectCalls
                    /\ heap'[th[t].h].network_up = FALSE
                    /\ nw'[th[t].idx] = nw[th[t].idx] - 1
               ELSE /\ th'[t].result = "CY_RSLT_MODULE_ECM_NOT_CONNECTED"
                    /\ th'[t].log = <<>>
                    /\ UNCHANGED <<heap, nw>>]_vars
    /\ [](\A t \in Callers :
            (th[t].pc = "exit" /\ th[t].op = "connect" /\ th[t].log = ConnectCalls
             /\ th[t].total_wait_time = 0)
            => /\ th[t].result = "CY_RSLT_SUCCESS"
               /\ heap[th[t].h].network_up = TRUE)

\* C10 case: a connect has succeeded on a handle that has been through
\* MaxCycles connect/disconnect cycles before.
C10_Witness ==
    \E t \in Callers :
        /\ Returns(t, "connect", "CY_RSLT_SUCCESS")
        /\ th[t].log = ConnectCalls
        /\ cycles[th[t].h] = MaxCycles

\* The step is the second half of a monitor iteration: the evaluation of the
\* answer the poll returned.
MonitorEvaluates ==
    /\ monitor.count > 0 /\ monitor'.count = monitor.count
    /\ monitor.pc = "polled" /\ monitor'.pc = "loop"

\* The latest dispatch delivered event to every listener registered at the
\* time and nothing else.
Dispatched(event) ==
    /\ Len(last_dispatch') = Cardinality(Slots \ SlotsHolding(ecm_event_handler, NULL))
    /\ \A k \in DOMAIN last_dispatch' : last_dispatch'[k].event = event

\* C11: for the interface a monitor iteration evaluates, an answer "up" with
\* the cached link state false sets the cache and dispatches one
\* CY_ECM_EVENT_CONNECTED; an answer "down" with the cache true clears it and
\* dispatches one CY_ECM_EVENT_DISCONNECTED; an unchanged status or a failed
\* poll leaves the cache as it is and dispatches nothing.
C11_MonitorIteration ==
    [][MonitorEvaluates /\ monitor.idx # NoIndex =>
         LET i      == monitor.idx
             cached == is_ethernet_link_up[i]
         IN  IF monitor.status = "up" /\ cached = FALSE
             THEN /\ is_ethernet_link_up' = [is_ethernet_link_up EXCEPT ![i] = TRUE]
                  /\ monitor'.event = "CY_ECM_EVENT_CONNECTED"
                  /\ Dispatched("CY_ECM_EVENT_CONNECTED")
             ELSE IF monitor.status = "down" /\ cached = TRUE
             THEN /\ is_ethernet_link_up' = [is_ethernet_link_up EXCEPT ![i] = FALSE]
                  /\ monitor'.event = "CY_ECM_EVENT_DISCONNECTED"
                  /\ Dispatched("CY_ECM_EVENT_DISCONNECTED")
             ELSE /\ UNCHANGED <<is_ethernet_link_up, last_dispatch>>
                  /\ monitor'.event = "none"]_vars

\* An iteration has evaluated a failed poll of an interface whose cached link
\* state was true, and left it true.
C11_Witness ==
    /\ monitor.count > 0
    /\ monitor.pc = "loop"
    /\ monitor.idx # NoIndex
    /\ monitor.status = "error"
    /\ monitor.event = "none"
    /\ is_ethernet_link_up[monitor.idx] = TRUE

\* The step is the first half of a monitor iteration: the poll of the link
\* status of an interface.
MonitorPolls ==
    /\ monitor.pc = "loop" /\ monitor'.pc = "polled"
    /\ monitor'.idx # NoIndex

\* C12: whenever the monitor polls the link status of interface i, it calls
\* phy_get_linkstatus through the table of the live handle of interface i, not
\* through the table of a handle of the other interface or of a destroyed one.
C12_PollsThroughLiveHandle ==
    [][MonitorPolls =>
         /\ heap[monitor.arg].live
         /\ heap[monitor.arg].eth_idx = monitor'.idx
         /\ app_handle[monitor'.idx] = monitor.arg]_vars

\* C13: under fair scheduling of the monitor, an interface that stays
\* initiated while the monitor thread runs is polled again and again, whether
\* or not the other interface is initiated as well.
C13_EveryInitiatedIndexPolled ==
    \A i \in Interfaces :
        <>[](is_ethernet_initiated[i] /\ monitor.count > 0)
            => []<>(monitor.pc = "polled" /\ monitor.idx = i)

\* The interfaces that have a connected handle.
ConnectedInterfaces ==
    {i \in Interfaces : \E o \in ObjIds : /\ heap[o].live
                                          /\ heap[o].eth_idx = i
                                          /\ heap[o].network_up}

\* C14: while a handle is connected, every link transition of its interface
\* from down to up delivers exactly one CY_ECM_EVENT_CONNECTED to each
\* registered listener, in slot order: every monitor iteration looks at each
\* connected interface, and an iteration that finds the link of a connected
\* interface up after it was down makes exactly the invocations of
\* invoke_app_callbacks.
C14_OneConnectedEventPerTransition ==
    /\ [][monitor.count > 0 /\ monitor.pc = "loop" /\ monitor'.pc = "polled" =>
            \A i \in ConnectedInterfaces : monitor'.idx = i]_vars
    /\ [][(/\ MonitorEvaluates
           /\ monitor.idx \in ConnectedInterfaces
           /\ monitor.status = "up"
           /\ is_ethernet_link_up[monitor.idx] = FALSE) =>
            /\ monitor'.event = "CY_ECM_EVENT_CONNECTED"
            /\ last_dispatch' = invoke_app_callbacks(ecm_event_handler,
                                                     "CY_ECM_EVENT_CONNECTED")]_vars

\* C15: the link monitor never takes ecm_mutex and never waits for it: none of
\* its steps changes the mutex, and as long as the thread exists its next step
\* can be taken, whoever holds the mutex.
C15_MonitorTakesNoLock ==
    /\ [][monitor.count > 0 /\ monitor'.count = monitor.count /\ monitor'.pc # monitor.pc =>
            UNCHANGED ecm_mutex]_vars
    /\ [](monitor.count > 0 => ENABLED (monitor_poll \/ monitor_evaluate))

\* A connect is in its DHCP wait, holding ecm_mutex, which it entered with the
\* cached link state true; the monitor has since polled the link as down,
\* cleared the cache and dispatched CY_ECM_EVENT_DISCONNECTED.
C15_Witness ==
    \E t \in Callers :
        /\ th[t].op = "connect"
        /\ th[t].pc = "dhcp_wait"
        /\ ecm_mutex.owner = t
        /\ monitor.pc = "loop"
        /\ monitor.status = "down"
        /\ monitor.event = "CY_ECM_EVENT_DISCONNECTED"
        /\ is_ethernet_link_up[heap[th[t].h].eth_idx] = FALSE

\* The step is a dispatch: the monitor changes the cached link state of an
\* interface and calls invoke_app_callbacks.
MonitorDispatches ==
    /\ is_ethernet_link_up' # is_ethernet_link_up
    /\ UNCHANGED <<th, ecm_event_handler>>

\* The invocations of the latest dispatch that were made for slot i.
InvocationsOf(i) == {k \in DOMAIN last_dispatch' : last_dispatch'[k].slot = i}

\* C16: a dispatch invokes the callback of every occupied slot exactly once and
\* nothing for an empty slot, in increasing slot order, all with the same
\* event, whatever registrations and deregistrations produced the table.
C16_DispatchFanOut ==
    [][MonitorDispatches =>
         /\ \A i \in Slots :
              IF ecm_event_handler[i] # NULL
              THEN /\ Cardinality(InvocationsOf(i)) = 1
                   /\ \A k \in InvocationsOf(i) : last_dispatch'[k].cb = ecm_event_handler[i]
              ELSE InvocationsOf(i) = {}
         /\ \A k \in DOMAIN last_dispatch' : last_dispatch'[k].slot \in Slots
         /\ \A j, k \in DOMAIN last_dispatch' :
              /\ j < k => last_dispatch'[j].slot < last_dispatch'[k].slot
              /\ last_dispatch'[j].event = last_dispatch'[k].event]_vars

\* A dispatch has invoked two different listeners from slots 1 and 2 while
\* slot 0, emptied by a deregistration, was skipped.
C16_Witness ==
    /\ Len(last_dispatch) = 2
    /\ last_dispatch[1].slot = 1
    /\ last_dispatch[2].slot = 2
    /\ last_dispatch[1].cb # last_dispatch[2].cb

\* Thread t runs the for loop of register / deregister in this step (the
\* isobjinitialized check passed).
RunsLoop(t, opname) ==
    /\ Moves(t, opname, "locked", "exit")
    /\ th'[t].result = "CY_RSLT_SUCCESS"

\* Slot i is the only slot the step changes, and it changes it from x to y.
ChangesOnlySlot(i, x, y) ==
    /\ ecm_event_handler[i] = x
    /\ ecm_event_handler'[i] = y
    /\ \A j \in Slots \ {i} : ecm_event_handler'[j] = ecm_event_handler[j]

\* C17: a register call made when all CY_ECM_MAXIMUM_CALLBACKS_COUNT slots are
\* occupied leaves every slot as it was.
C17_RegisterWhenFullKeepsSlots ==
    [][\A t \in Callers :
         RunsLoop(t, "register") /\ SlotsHolding(ecm_event_handler, NULL) = {}
             => UNCHANGED ecm_event_handler]_vars

\* A register call with a listener function other than the one in the last slot
\* has run its loop over a full table, found no empty slot, and the table is
\* still full and does not hold it in the last slot.
C17_Witness ==
    \E t \in Callers :
        /\ th[t].op = "register"
        /\ th[t].pc = "exit"
        /\ th[t].i = CY_ECM_MAXIMUM_CALLBACKS_COUNT
        /\ SlotsHolding(ecm_event_handler, NULL) = {}
        /\ ecm_event_handler[CY_ECM_MAXIMUM_CALLBACKS_COUNT - 1] # th[t].arg

\* C18: a register call made when all slots are occupied returns a result
\* other than success.
C18_RegisterWhenFullFails ==
    \A t \in Callers :
        (/\ th[t].op = "register"
         /\ th[t].pc = "exit"
         /\ th[t].result = "CY_RSLT_SUCCESS"
         /\ th[t].i = CY_ECM_MAXIMUM_CALLBACKS_COUNT)
        => ReturnValue(t) # "CY_RSLT_SUCCESS"

\* C19: register writes the callback into the lowest empty slot and changes no
\* other slot; deregister clears the lowest slot that holds the callback and
\* changes no other slot; deregister of a callback that is in no slot changes
\* nothing and returns success.
C19_LowestSlotOnly ==
    [][\A t \in Callers :
         /\ (RunsLoop(t, "register") /\ SlotsHolding(ecm_event_handler, NULL) # {}) =>
              \E i \in Slots :
                  /\ \A j \in 0..(i - 1) : ecm_event_handler[j] # NULL
                  /\ ChangesOnlySlot(i, NULL, th[t].arg)
         /\ (RunsLoop(t, "deregister") /\ SlotsHolding(ecm_event_handler, th[t].arg) # {}) =>
              \E i \in Slots :
                  /\ \A j \in 0..(i - 1) : ecm_event_handler[j] # th[t].arg
                  /\ ChangesOnlySlot(i, th[t].arg, NULL)
         /\ (RunsLoop(t, "deregister") /\ SlotsHolding(ecm_event_handler, th[t].arg) = {}) =>
              /\ UNCHANGED ecm_event_handler
              /\ exit_result(th'[t].op, th'[t].result, TRUE) = "CY_RSLT_SUCCESS"]_vars

\* A deregister call has cleared slot 0 and left the same listener function
\* registered in slot 1.
C19_Witness ==
    \E t \in Callers :
        /\ th[t].op = "deregister"
        /\ th[t].pc = "exit"
        /\ th[t].result = "CY_RSLT_SUCCESS"
        /\ th[t].i = 0
        /\ ecm_event_handler[0] = NULL
        /\ ecm_event_handler[1] = th[t].arg

\* C20: an error a call detects is returned to the caller: register and
\* deregister that find isobjinitialized not set on their handle return
\* CY_RSLT_MODULE_ECM_NOT_INITIALIZED.
C20_NotInitializedIsReturned ==
    \A t \in Callers :
        (/\ th[t].op \in {"register", "deregister"}
         /\ th[t].pc = "exit"
         /\ th[t].result = "CY_RSLT_MODULE_ECM_NOT_INITIALIZED")
        => ReturnValue(t) = "CY_RSLT_MODULE_ECM_NOT_INITIALIZED"

\* C21: when the release of ecm_mutex at the end of a call fails, the call
\* returns CY_RSLT_ECM_MUTEX_ERROR only if its result was success until then;
\* a call that had already produced an error returns that error.
C21_ReleaseFailureKeepsPrimaryError ==
    [][\A t \in Callers :
         th[t].pc = "exit" /\ th'[t].pc = "ret" =>
             th'[t].result = IF th[t].result = "CY_RSLT_SUCCESS"
                             THEN "CY_RSLT_ECM_MUTEX_ERROR"
                             ELSE th[t].result]_vars

\* The link queries that are at their exit label.
AtExitOf(t, opname) == th[t].op = opname /\ th[t].pc = "exit"

\* The number of phy_get_linkstatus polls a link query at its exit label has
\* made: one per delay, and the one that ended the loop if one did.
PollsMade(t, ended_by_poll) ==
    th[t].total_wait_time \div WAIT_CHECK_ETHERNET_PHY_STATUS
        + (IF ended_by_poll THEN 1 ELSE 0)

\* C22: cy_ecm_get_link_status and cy_ecm_get_link_speed leave their polling
\* loop after at most 100 polls (MAX_WAIT_ETHERNET_PHY_STATUS at
\* WAIT_CHECK_ETHERNET_PHY_STATUS per poll) and release ecm_mutex when they
\* return; at the ceiling get_link_status returns success with status false,
\* and below it, it returns status true.
C22_LinkQueriesBounded ==
    /\ [](\A t \in Callers :
            /\ AtExitOf(t, "get_link_status") =>
                 /\ th[t].total_wait_time <= MAX_WAIT_ETHERNET_PHY_STATUS
                 /\ PollsMade(t, th[t].out = "true") <= 100
                 /\ th[t].out \in {"true", "false"}
                 /\ th[t].out = "false" <=> th[t].total_wait_time = MAX_WAIT_ETHERNET_PHY_STATUS
                 /\ ReturnValue(t) = "CY_RSLT_SUCCESS"
            /\ AtExitOf(t, "get_link_speed") =>
                 /\ th[t].total_wait_time <= MAX_WAIT_ETHERNET_PHY_STATUS
                 /\ PollsMade(t, th[t].out = "value") <= 100
                 /\ ReturnValue(t) = IF th[t].total_wait_time = MAX_WAIT_ETHERNET_PHY_STATUS
                                     THEN "CY_RSLT_ECM_ERROR" ELSE "CY_RSLT_SUCCESS")
    /\ [][\A t \in Callers :
            (th[t].op \in {"get_link_status", "get_link_speed"}
                /\ th[t].pc = "exit" /\ th'[t].pc = "idle")
            => ecm_mutex.owner = t /\ ecm_mutex'.owner = NULL]_vars

\* A get_link_status call has polled 100 times without an answer "up" and is
\* about to return success with status false.
C22_Witness ==
    \E t \in Callers :
        /\ AtExitOf(t, "get_link_status")
        /\ th[t].total_wait_time = MAX_WAIT_ETHERNET_PHY_STATUS
        /\ th[t].out = "false"
        /\ ecm_mutex.owner = t

\* The getters of an IPv4 address or of the gateway MAC address.
AddressGetters ==
    {"get_ip_address", "get_gateway_address", "get_netmask_address", "get_mac_address"}

\* C23: on a handle whose network_up is false, cy_ecm_get_ip_address and the
\* gateway, netmask and gateway-MAC getters return
\* CY_RSLT_MODULE_ECM_NOT_CONNECTED with the output zeroed and without a
\* query of the network stack.
C23_GetterWhenNotConnected ==
    \A t \in Callers :
        (/\ th[t].op \in AddressGetters
         /\ th[t].pc = "exit"
         /\ heap[th[t].h].network_up = FALSE)
        => /\ ReturnValue(t) = "CY_RSLT_MODULE_ECM_NOT_CONNECTED"
           /\ th[t].out = "zero"
           /\ th[t].log = <<>>

\* cy_ecm_get_ip_address is about to return from a call on a handle that was
\* connected and disconnected before.
C23_Witness ==
    \E t \in Callers :
        /\ th[t].op = "get_ip_address"
        /\ th[t].pc = "exit"
        /\ heap[th[t].h].network_up = FALSE
        /\ cycles[th[t].h] > 0
        /\ th[t].out = "zero"

\* Thread t makes the call opname in this step and the call returns at once.
CallReturns(t, opname) ==
    th[t].pc = "idle" /\ th'[t].pc = "ret" /\ th'[t].op = opname

\* A rejected cy_ecm_init / cy_ecm_deinit: nothing changes and no collaborator
\* is called.
Rejected(t, res) ==
    /\ th'[t].result = res
    /\ th'[t].log = <<>>
    /\ UNCHANGED <<ecm_mutex, globals>>

\* What C24 says of cy_ecm_deinit, and of cy_ecm_init on an active manager.
DeinitAndActiveInit(t) ==
    /\ CallReturns(t, "init") /\ is_ecm_initialized
          => Rejected(t, "CY_RSLT_ECM_INIT_ERROR")
    /\ CallReturns(t, "deinit") /\ ~is_ecm_initialized
          => Rejected(t, "CY_RSLT_MODULE_ECM_NOT_INITIALIZED")
    /\ CallReturns(t, "deinit") /\ is_ecm_initialized
          => th'[t].result = "CY_RSLT_SUCCESS" /\ ~is_ecm_initialized'

\* C24 as stated: cy_ecm_init succeeds exactly when the manager is inactive,
\* cy_ecm_deinit exactly when it is active; the rejected call fails with
\* CY_RSLT_ECM_INIT_ERROR, respectively CY_RSLT_MODULE_ECM_NOT_INITIALIZED, and
\* changes nothing.
C24_InitSucceedsWheneverInactive ==
    [][\A t \in Callers :
         /\ DeinitAndActiveInit(t)
         /\ CallReturns(t, "init") /\ ~is_ecm_initialized
               => th'[t].result = "CY_RSLT_SUCCESS" /\ is_ecm_initialized']_vars

\* C24, amended: cy_ecm_init on an inactive manager succeeds and activates it,
\* unless cy_network_init or cy_rtos_init_mutex2 fails: then it returns
\* CY_RSLT_ECM_NW_INIT_ERROR or CY_RSLT_ECM_MUTEX_ERROR and the manager stays
\* inactive.  The rest is as stated.
C24_InitDeinit ==
    [][\A t \in Callers :
         /\ DeinitAndActiveInit(t)
         /\ CallReturns(t, "init") /\ ~is_ecm_initialized
               => \/ /\ th'[t].result = "CY_RSLT_SUCCESS"
                     /\ is_ecm_initialized'
                     /\ ecm_mutex' = [valid |-> TRUE, owner |-> NULL]
                  \/ /\ th'[t].result \in {"CY_RSLT_ECM_NW_INIT_ERROR",
                                           "CY_RSLT_ECM_MUTEX_ERROR"}
                     /\ th'[t].log # <<>>
                     /\ ~is_ecm_initialized'
                     /\ ~is_tcp_initialized'
                     /\ UNCHANGED ecm_mutex]_vars

\* cy_ecm_init has been rejected on an active manager that has the handle of
\* an interface.
C24_Witness ==
    \E t \in Callers :
        /\ th[t].op = "init"
        /\ th[t].pc = "ret"
        /\ th[t].result = "CY_RSLT_ECM_INIT_ERROR"
        /\ is_ecm_initialized
        /\ \E o \in ObjIds : heap[o].live

\* C25: a successful cy_ecm_ethif_deinit clears is_ethernet_initiated of its
\* interface, takes exactly one off is_ecm_thread_created and sets the
\* caller's handle to NULL; a destroy through a handle that is NULL never gets
\* as far as the mutex, returns CY_RSLT_MODULE_ECM_BADARG and changes neither
\* the initiated flags, the count nor the monitor thread.
C25_DestroyOnceOnly ==
    [][\A t \in Callers :
         /\ Moves(t, "destroy", "locked", "exit") =>
              /\ th'[t].result = "CY_RSLT_SUCCESS"
              /\ is_ethernet_initiated' =
                     [is_ethernet_initiated EXCEPT ![heap[th[t].h].eth_idx] = FALSE]
              /\ is_ecm_thread_created > 0
              /\ is_ecm_thread_created' = is_ecm_thread_created - 1
              /\ app_handle[th[t].idx] = th[t].h
              /\ app_handle'[th[t].idx] = NULL
         /\ (th[t].pc = "idle" /\ th'[t].pc = "lock" /\ th'[t].op = "destroy") =>
              app_handle[th'[t].idx] # NULL
         /\ CallReturns(t, "destroy") =>
              /\ th'[t].result = "CY_RSLT_MODULE_ECM_BADARG"
              /\ \E v \in Interfaces : app_handle[v] = NULL
              /\ UNCHANGED <<is_ethernet_initiated, is_ecm_thread_created, monitor,
                             ecm_event_thread, app_handle, heap>>]_vars

\* A destroy of the handle of one interface has succeeded while the handle of
\* the other interface exists: the count went from 2 to 1.
C25_Witness ==
    \E t \in Callers :
        /\ th[t].op = "destroy"
        /\ th[t].pc = "exit"
        /\ th[t].result = "CY_RSLT_SUCCESS"
        /\ app_handle[th[t].idx] = NULL
        /\ is_ethernet_initiated[th[t].idx] = FALSE
        /\ is_ecm_thread_created = 1
        /\ monitor.count = 1

\* The step is made by the monitor thread: no caller thread moves.
MonitorStep == monitor.count > 0 /\ UNCHANGED th

\* C26: is_ethernet_link_up is written only by the link monitor and by the
\* link wait of cy_ecm_connect; every step of cy_ecm_init, cy_ecm_deinit,
\* create, destroy, disconnect, register, deregister, get_link_status,
\* get_link_speed, the getters and ping leaves it as it is for both indexes.
C26_LinkUpWriters ==
    [][is_ethernet_link_up' # is_ethernet_link_up =>
         \/ MonitorStep
         \/ \E t \in Callers : Moves(t, "connect", "link_wait", "ip_up")]_vars

\* cy_ecm_get_link_status has found the link up and is about to report true
\* while the cached link state of its interface is still false.
C26_Witness ==
    \E t \in Callers :
        /\ AtExitOf(t, "get_link_status")
        /\ th[t].out = "true"
        /\ is_ethernet_link_up[heap[th[t].h].eth_idx] = FALSE

\* C27: a live handle whose network_up is true belongs to an interface whose
\* is_ethernet_initiated flag is true.
C27_ConnectedImpliesInitiated ==
    \A o \in ObjIds :
        heap[o].live /\ heap[o].network_up => is_ethernet_initiated[heap[o].eth_idx]

\* The handle of ETH1 is connected while ETH0, whose handle was destroyed with
\* the interface still attached to the network stack, is not initiated.
C27_Witness ==
    /\ \E o \in ObjIds : /\ heap[o].live
                         /\ heap[o].network_up
                         /\ heap[o].eth_idx = CY_ECM_INTERFACE_ETH1
    /\ ~is_ethernet_initiated[CY_ECM_INTERFACE_ETH0]
    /\ nw[CY_ECM_INTERFACE_ETH0] > 0
    /\ app_handle[CY_ECM_INTERFACE_ETH0] = NULL

\* The results of cy_ecm_connect after a failed cy_network_ip_up.
IpUpErrors ==
    {"CY_RSLT_MODULE_ECM_ERROR_STARTING_DHCP", "CY_RSLT_ECM_DHCP_TIMEOUT",
     "CY_RSLT_NETWORK_ERROR"}

MonitorDispatchesToListener ==
    /\ MonitorStep
    /\ is_ethernet_link_up' # is_ethernet_link_up
    /\ last_dispatch' # <<>>

\* C29: on one interface, the event that the link monitor dispatches to the
\* listeners differs from the event of the dispatch before it: CONNECTED and
\* DISCONNECTED alternate, whatever cy_ecm_connect and cy_ecm_disconnect do
\* between two iterations of the monitor and however the link flaps.
C29_EventsAlternate ==
    [][MonitorDispatchesToListener /\ last_dispatch # <<>> =>
           last_dispatch'[1].event # last_dispatch[1].event]_vars

\* The step is the call of a listener by invoke_app_callbacks.
InvokeCalls ==
    /\ monitor.pc = "call"
    /\ Len(last_dispatch') = Len(last_dispatch) + 1

\* A deregister of event_callback is between its acquire and its release.
DeregisterRunning(event_callback) ==
    \E t \in Callers : /\ th[t].op = "deregister"
                       /\ th[t].arg = event_callback
                       /\ InLockedSection(t)

\* C30: a listener is called by a dispatch only while a slot holds it or its
\* deregister has not yet returned, and the slot a dispatch calls through
\* still holds the non-null pointer that its test read.
C30_NoCallAfterDeregister ==
    [][InvokeCalls =>
         LET called == last_dispatch'[Len(last_dispatch')].cb
         IN  /\ ecm_event_handler[monitor.slot] # NULL
             /\ called # NULL
             /\ \/ SlotsHolding(ecm_event_handler, called) # {}
                \/ DeregisterRunning(called)]_vars

\* C31: a cy_ecm_ethif_deinit of a handle that is still connected fails, or
\* leaves no interface of the index of that handle attached to the network
\* stack when its body ends with success.
C31_DestroyLeavesNothingAttached ==
    [][\A t \in Callers :
         /\ Moves(t, "destroy", "locked", "exit")
         /\ heap[th[t].h].network_up
         /\ th'[t].result = "CY_RSLT_SUCCESS"
         => nw'[heap[th[t].h].eth_idx] = 0]_vars

\* Thread t has passed the checks at the entry of its call and has not yet
\* returned from cy_rtos_set_mutex at the exit label.
BetweenCheckAndRelease(t) == th[t].pc = "lock" \/ InLockedSection(t)

\* C32: while a call is between its is_ecm_initialized check and its release
\* of ecm_mutex, cy_ecm_deinit has not destroyed ecm_mutex nor torn down the
\* network stack: the mutex is valid and the manager is still initialised.
C32_DeinitWaitsForCalls ==
    \A t \in Callers :
        BetweenCheckAndRelease(t) =>
            /\ ecm_mutex.valid
            /\ is_ecm_initialized
            /\ is_tcp_initialized

\* The objects that cy_ecm_ethif_init has handed out and that have not been freed.
LiveHandles == {o \in ObjIds : heap[o].live}

\* C33: is_ecm_thread_created equals the number of live handles, and so lies
\* in 0..2 and never wraps, also when two threads call cy_ecm_ethif_deinit on
\* the same handle at once.
C33_CountIsLiveHandles ==
    /\ is_ecm_thread_created = Cardinality(LiveHandles)
    /\ is_ecm_thread_created \in 0..CY_ECM_ETH_INTERFACE_MAX

\* C34: is_ethernet_link_up[i] is false whenever is_ethernet_initiated[i] is
\* false, so that the link wait of a cy_ecm_connect on a newly created handle
\* is not skipped because of a link seen up while an earlier handle of the
\* index existed.
C34_LinkCacheClearedByDestroy ==
    \A i \in Interfaces :
        is_ethernet_initiated[i] = FALSE => is_ethernet_link_up[i] = FALSE

\* The step is the one in which thread t calls cy_rtos_set_mutex at an exit label.
CallsSetMutex(t) == th[t].pc = "exit" /\ th'[t].pc # "exit"

\* The step is the one in which cy_rtos_get_mutex fails for thread t.
GetMutexFails(t) == th[t].pc = "lock" /\ th'[t].pc \notin {"lock", "locked"}

\* C35: a call releases ecm_mutex only if it has acquired it: a call whose
\* cy_rtos_get_mutex fails returns CY_RSLT_ECM_MUTEX_ERROR without calling
\* cy_rtos_set_mutex, and a call whose acquire succeeded calls cy_rtos_set_mutex
\* as the owner of the mutex.
C35_ReleaseOnlyIfAcquired ==
    [][\A t \in Callers :
         /\ CallsSetMutex(t) => ecm_mutex.owner = t
         /\ GetMutexFails(t) => /\ th'[t].pc = "ret"
                                /\ th'[t].result = "CY_RSLT_ECM_MUTEX_ERROR"
                                /\ ecm_mutex' = ecm_mutex]_vars

\* C36: cy_ecm_ethif_init ends within its link-wait ceiling: no create is
\* still inside its locked section after it has waited for the PHY for more
\* than MAX_WAIT_ETHERNET_PHY_STATUS milliseconds.
C36_CreateWaitIsBounded ==
    \A t \in Callers :
        th[t].op = "create" /\ InLockedSection(t)
        => th[t].total_wait_time <= MAX_WAIT_ETHERNET_PHY_STATUS

\* C37: a successful cy_ecm_init leaves the manager as a first init does,
\* also after a cy_ecm_deinit: no callback slot is occupied, no interface index
\* is initiated, is_ecm_thread_created is 0 and no monitor thread runs.
C37_InitAfterDeinitIsFresh ==
    [][\A t \in Callers :
         CallReturns(t, "init") /\ th'[t].result = "CY_RSLT_SUCCESS" =>
             /\ \A i \in Slots : ecm_event_handler'[i] = NULL
             /\ \A v \in Interfaces : is_ethernet_initiated'[v] = FALSE
             /\ is_ecm_thread_created' = 0
             /\ ecm_event_thread' = NULL
             /\ monitor'.count = 0]_vars

\* C38: each listener function occupies at most one slot of ecm_event_handler
\* (a register of a function that is already in the table takes no second
\* slot), so that a dispatch calls it once and one deregister removes it.
C38_OneSlotPerCallback ==
    \A i, j \in Slots :
        ecm_event_handler[i] # NULL /\ ecm_event_handler[i] = ecm_event_handler[j] => i = j

\* The step is a run of ip_change_callback.
IpChangeNotified == ip_change' # ip_change

\* C39: when the network stack reports an address change and the address
\* query of ip_change_callback succeeds, CY_ECM_EVENT_IP_CHANGED is dispatched
\* once to every occupied slot with event data that hold the IPv4 address just
\* queried; when the query fails no listener is called.
C39_IpChangeDispatch ==
    [][IpChangeNotified =>
         IF ip_change'.res = "CY_RSLT_SUCCESS"
         THEN /\ ip_change'.data = [version |-> "CY_ECM_IP_VER_V4", v4 |-> ip_change'.queried]
              /\ ip_change'.queried \in IpAddresses
              /\ \A i \in Slots :
                   IF ecm_event_handler[i] = NULL
                   THEN InvocationsOf(i) = {}
                   ELSE /\ Cardinality(InvocationsOf(i)) = 1
                        /\ \A k \in InvocationsOf(i) :
                             /\ last_dispatch'[k].cb = ecm_event_handler[i]
                             /\ last_dispatch'[k].event = "CY_ECM_EVENT_IP_CHANGED"
              /\ \A k \in DOMAIN last_dispatch' : last_dispatch'[k].slot \in Slots
         ELSE /\ last_dispatch' = last_dispatch
              /\ ip_change'.data = [version |-> "0", v4 |-> 0]]_vars

\* An address change whose query answered address 2 has been dispatched to
\* the listeners in two slots.
C39_Witness ==
    /\ ip_change.res = "CY_RSLT_SUCCESS"
    /\ ip_change.data.v4 = 2
    /\ Len(last_dispatch) = 2
    /\ \A k \in DOMAIN last_dispatch : last_dispatch[k].event = "CY_ECM_EVENT_IP_CHANGED"

\* C40: a cy_ecm_set_filter_address that ends with success has programmed,
\* for every entry i of the n it was given, hardware filter i + 1 with the
\* type, the address and the ignore-byte mask of entry i itself; a call is let
\* in only with 1 <= n <= CY_ECM_MAX_FILTER_ADDRESS, and a call that returns
\* from its entry checks has written no filter.
C40_FiltersProgrammed ==
    [][\A t \in Callers :
         /\ (Moves(t, "set_filter_address", "locked", "exit")
             /\ th'[t].result = "CY_RSLT_SUCCESS") =>
                /\ Len(th'[t].out) = Len(th[t].arg)
                /\ \A k \in 1..Len(th[t].arg) :
                     th'[t].out[k] = [num         |-> k,
                                      typeFilter  |-> th[t].arg[k].filter_type,
                                      filterAddr  |-> th[t].arg[k].filter_addr,
                                      ignoreBytes |-> th[t].arg[k].ignoreBytes]
         /\ (th[t].pc = "idle" /\ th'[t].pc = "lock" /\ th'[t].op = "set_filter_address") =>
                Len(th'[t].arg) \in 1..CY_ECM_MAX_FILTER_ADDRESS
         /\ CallReturns(t, "set_filter_address") =>
                /\ th'[t].result \in {"CY_RSLT_MODULE_ECM_BADARG",
                                      "CY_RSLT_MODULE_ECM_NOT_INITIALIZED"}
                /\ th'[t].log = <<>>]_vars

====
